---- MODULE Spec2Model ----
(***************************************************************************)
(* Amorce agent-to-agent protocol: the orchestrator's transaction router   *)
(* (src/orchestrator.py), the client-side signer (src/agent_client.py) and *)
(* the tool surface of the MCP wrapper (known from src/tests and           *)
(* src/adapters/mcp/standalone_verify.py).                                 *)
(*                                                                         *)
(* A JSON object is a sequence of pairs [k, v] in the order its keys were  *)
(* written (a Python dict keeps insertion order).  A top-level value is    *)
(* either a string, Str(s), or an object of string-valued pairs, Obj(ps).  *)
(* A byte string produced by json.dumps is a sequence of tokens: the       *)
(* punctuation json.dumps emits and the key / value strings.               *)
(***************************************************************************)
EXTENDS Integers, Sequences, FiniteSets, TLC

Range(s) == {s[i] : i \in DOMAIN s}

None == "None"

Str(s) == [t |-> "s", s |-> s, o |-> <<>>]

Obj(ps) == [t |-> "o", s |-> "", o |-> ps]

Pair(k, v) == [k |-> k, v |-> v]

(***************************************************************************)
(* Canonical codec                                                         *)
(***************************************************************************)

\* The key names used by the messages of the model, in the order Python's
\* sorted() puts them (code-point order of the strings).
KeyOrder ==
    <<"approval_id", "consumer_agent_id", "intent", "payload",
      "service_id", "tool_name", "transaction_id">>

\* dict.get(key): the value written for the key, None when absent.
Get(ps, key) ==
    IF \E i \in DOMAIN ps : ps[i].k = key
    THEN (CHOOSE p \in Range(ps) : p.k = key).v
    ELSE None

HasKey(ps, key) == \E i \in DOMAIN ps : ps[i].k = key

\* sort_keys=True: the items of a dict ordered by key.
SortKeys(ps) ==
    LET present == SelectSeq(KeyOrder, LAMBDA k : HasKey(ps, k))
    IN  [j \in DOMAIN present |-> Pair(present[j], Get(ps, present[j]))]

RECURSIVE Join(_, _)
Join(parts, sep) ==
    IF parts = <<>> THEN <<>>
    ELSE IF Len(parts) = 1 THEN parts[1]
    ELSE parts[1] \o <<sep>> \o Join(Tail(parts), sep)

\* json.dumps of an object whose values are strings.
DumpFlat(ps, sortKeys, itemSep, keySep) ==
    LET items == IF sortKeys THEN SortKeys(ps) ELSE ps
    IN  <<"{">>
        \o Join([i \in DOMAIN items |-> <<items[i].k, keySep, items[i].v>>], itemSep)
        \o <<"}">>

DumpValue(v, sortKeys, itemSep, keySep) ==
    IF v.t = "s" THEN <<v.s>> ELSE DumpFlat(v.o, sortKeys, itemSep, keySep)

\* json.dumps(obj, sort_keys=..., separators=(itemSep, keySep)).
json_dumps(ps, sortKeys, itemSep, keySep) ==
    LET items == IF sortKeys THEN SortKeys(ps) ELSE ps
    IN  <<"{">>
        \o Join([i \in DOMAIN items |->
                    <<items[i].k, keySep>>
                    \o DumpValue(items[i].v, sortKeys, itemSep, keySep)],
                itemSep)
        \o <<"}">>

\* json.dumps(body) without sort_keys: the keys in the order they were written.
canonical_message_unsorted(body) == json_dumps(body, FALSE, ", ", ": ")

\* orchestrator.py: json.dumps(body, sort_keys=True) with json's default
\* separators (', ', ': ').
canonical_message(body) == json_dumps(body, TRUE, ", ", ": ")

\* agent_client.py: json.dumps(task_object, sort_keys=True, separators=(',', ':')).
task_json(task) == json_dumps(task, TRUE, ",", ":")

\* The clients of src/tests sign json.dumps(payload, sort_keys=True).
signer_message(payload) == json_dumps(payload, TRUE, ", ", ": ")

(***************************************************************************)
(* Ed25519 and base64                                                      *)
(*                                                                         *)
(* A key pair is named by one string: the private key "K1" signs what the  *)
(* public key "K1" verifies.  A signature is the pair of the signing key   *)
(* and the bytes signed; Forged is a byte string that is no signature of   *)
(* anything (altered or of the wrong length).                              *)
(***************************************************************************)

Sign(sk, msg) == [key |-> sk, msg |-> msg]

Forged == [key |-> "none", msg |-> <<>>]

\* Ed25519PublicKey.verify(signature, data): TRUE when it returns, FALSE when
\* it raises InvalidSignature.
Ed25519Verify(pk, sig, msg) == sig.key = pk /\ sig.msg = msg

\* The base64 text of a signature, scaled down to two quanta: one full
\* quantum of data characters and a last one of two data characters and two
\* pads (a 64 byte signature is 21 full quanta and such a last one).
\* "D1".."D6" are the data characters of the signature `of`.
GenuineData == <<"D1", "D2", "D3", "D4", "D5", "D6">>

b64encode(sig) == [sym |-> GenuineData \o <<"=", "=">>, of |-> sig]

IsDataChar(c) == c \in (Range(GenuineData) \cup {"Z"})

\* binascii.a2b_base64 in its default (non-strict) mode: characters outside
\* the alphabet are skipped, a pad that completes a quantum ends the parse,
\* and a quantum left open at the end is an error.  The result is the data
\* characters decoded, or <<"Error">>.
RECURSIVE B64Scan(_, _, _, _, _)
B64Scan(s, i, quad, pads, acc) ==
    IF i > Len(s)
    THEN IF quad # 0 THEN <<"Error">> ELSE acc
    ELSE IF s[i] = "="
         THEN IF quad >= 2
              THEN IF quad + pads + 1 >= 4
                   THEN acc
                   ELSE B64Scan(s, i + 1, quad, pads + 1, acc)
              ELSE B64Scan(s, i + 1, quad, pads, acc)
         ELSE IF IsDataChar(s[i])
              THEN B64Scan(s, i + 1, (quad + 1) % 4, 0, Append(acc, s[i]))
              ELSE B64Scan(s, i + 1, quad, pads, acc)

\* base64.b64decode(signature_b64): [ok, bytes].
b64decode(hdr) ==
    LET data == B64Scan(hdr.sym, 1, 0, 0, <<>>)
    IN  IF data = <<"Error">> THEN [ok |-> FALSE, bytes |-> Forged]
        ELSE IF data = GenuineData THEN [ok |-> TRUE, bytes |-> hdr.of]
        ELSE [ok |-> TRUE, bytes |-> Forged]

(***************************************************************************)
(* Collaborators: the Trust Directory, the provider endpoints, the clock   *)
(***************************************************************************)

\* Agent ids: "A" is the consumer of the scenarios, "B" the provider of
\* service "S1", "C" a registered agent whose record has neither a
\* public_key nor an api_endpoint, "X" an id the Directory does not know.
AgentIds == {"A", "B", "C", "D", "X"}

Statuses == {"active", "suspended", "revoked"}

\* An AgentIdentityRecord as the Directory serves it.
Record(status, key, endpoint) ==
    [status |-> status, public_key |-> key, api_endpoint |-> endpoint]

\* The api_endpoint of a record whose "metadata" is JSON null (a record
\* without metadata, or without api_endpoint in it, has api_endpoint "").
NullMetadata == "null-metadata"

\* What a lookup returns instead of a record (Python's None).
NoRecord == Record("none", "", "")

\* GET /api/v1/services/{service_id}: the contracts the Directory holds, by
\* provider_agent_id ("" when the contract has none); "SX" is unknown.
ServiceIds == {"S1", "S2", "S3", "S4", "S5", "S6"}

ServiceProvider(sid) ==
    CASE sid = "S1" -> "B"
      [] sid = "S2" -> ""
      [] sid = "S3" -> "C"
      [] sid = "S4" -> "X"
      [] sid = "S5" -> "A"
      [] sid = "S6" -> "D"
      [] OTHER -> ""

\* The placeholders of the endpoint path template in a contract's metadata:
\* the contract of "S1" has the template "/tickets/{ticket_id}".
ContractPlaceholders(sid) == IF sid = "S1" THEN {"ticket_id"} ELSE {}

\* The ways a Directory lookup can fail to deliver a record or contract.
DirectoryFaults == {"timeout", "http500"}

\* The answers of a provider endpoint to the proxied POST.
ProviderAnswers ==
    { [kind |-> "json", status |-> 200, body |-> "result42", tag |-> "json200"],
      [kind |-> "json", status |-> 500, body |-> "provider_error", tag |-> "json500"],
      [kind |-> "nonjson", status |-> 200, body |-> "html", tag |-> "nonjson"],
      [kind |-> "unreachable", status |-> 0, body |-> "", tag |-> "unreachable"] }

CACHE_TTL_SECONDS == 300

\* The clock advances TickStep seconds at a time, MaxTicks times at most.
TickStep == 300

MaxTicks == 1

\* A Directory lookup takes FetchSeconds to come back (its timeout is 3 s).
FetchSeconds == 1

\* The Directory's records change at most MaxDirChanges times.
MaxDirChanges == 1

\* The router receives at most MaxRequests requests.
MaxRequests == 2

\* The negotiation loop is followed until it has sent MaxTurnsSent turns.
MaxTurnsSent == 11

\* smart_agent.py: `if turn_counter > 10`.
SAFETY_LIMIT == 10

Handlers == {"h1", "h2"}

(***************************************************************************)
(* Requests                                                                *)
(***************************************************************************)

\* An absent (or empty) X-Agent-Signature header.
NoHeader == [sym |-> <<>>, of |-> Forged]

\* body.get(key) of a top-level string field: "" when the key is absent
\* (None and "" are both falsy, and every use is a truth test or a lookup).
Field(body, key) == IF HasKey(body, key) THEN Get(body, key).s ELSE ""

\* body.get("payload", {}).
Payload(body) == IF HasKey(body, "payload") THEN Get(body, "payload").o ELSE <<>>

\* A payload: an intent and, when approval # "", an approval_id.
PayloadOf(intent, approval) ==
    IF approval = ""
    THEN <<Pair("intent", intent)>>
    ELSE <<Pair("intent", intent), Pair("approval_id", approval)>>

\* A TransactionRequest body with its keys written in the order of
\* run_bridge_transaction (order = "written") or in sorted order; a field
\* given as "" is left out.
TxBody(consumer, service, payload, order) ==
    LET written ==
            <<Pair("transaction_id", Str("t1")), Pair("service_id", Str(service)),
              Pair("consumer_agent_id", Str(consumer)), Pair("payload", Obj(payload))>>
        kept == SelectSeq(written, LAMBDA p : p.v.t = "o" \/ p.v.s # "")
    IN  IF order = "written" THEN kept ELSE SortKeys(kept)

\* The X-Agent-Signature header values the model sends for a body, by the
\* way they were made: signed with key k over the encoding of the tests'
\* clients ("genuine"), over the signer's encoding of agent_client.py
\* ("client"), over another body ("otherbody"), and the genuine text with one
\* character replaced ("flipped"), its last character cut ("truncated"), its
\* last quantum cut ("shortened"), a character outside the base64 alphabet
\* inserted ("junk"); "absent" is no header.
SignatureHeader(how, k, body) ==
    LET good == b64encode(Sign(k, signer_message(body)))
    IN  CASE how = "genuine" -> good
          [] how = "client" -> b64encode(Sign(k, task_json(body)))
          [] how = "otherbody" ->
                b64encode(Sign(k, signer_message(
                    TxBody("A", "S1", PayloadOf("tampered", ""), "written"))))
          [] how = "flipped" -> [good EXCEPT !.sym[2] = "Z"]
          [] how = "truncated" -> [good EXCEPT !.sym = SubSeq(good.sym, 1, Len(good.sym) - 1)]
          [] how = "shortened" -> [good EXCEPT !.sym = SubSeq(good.sym, 1, 4)]
          [] how = "junk" -> [good EXCEPT !.sym = <<"D1", "!">> \o Tail(good.sym)]
          [] OTHER -> NoHeader

\* A request to POST /v1/a2a/transact.
Transact(apiKey, body, sig) ==
    [surface |-> "transact", apiKey |-> apiKey, body |-> body, sig |-> sig,
     agentHdr |-> ""]

Intents == {"transaction.commit", "query"}

\* The configured committing class of intents and tools.
Committing == {"transaction.commit", "write_file"}

(***************************************************************************)
(* The router: src/orchestrator.py                                         *)
(*                                                                         *)
(* A handler runs without interruption between two network calls.  Each    *)
(* operator below is the stretch of a2a_transact from one network answer   *)
(* to the next network call or to the response, and yields the handler's   *)
(* next position, its response, the steps it logged and the two caches.    *)
(***************************************************************************)

Resp(status, body) == [status |-> status, body |-> body, requires_hitl |-> FALSE]

NoResp == Resp(0, "")

\* Flask's answer when an exception leaves the view function.
UnhandledException == Resp(500, "Internal Server Error")

Entry(val, ts) == [val |-> val, ts |-> ts]

NoKeyEntry == Entry("", -1)

NoRecEntry == Entry(NoRecord, -1)

\* The freshness test answering "expired" for every entry.
FreshNever(entry, t) == entry.ts >= 0 /\ t - entry.ts < 0

\* The freshness test with `<=` for `<`.
FreshInclusive(entry, t) == entry.ts >= 0 /\ t - entry.ts <= CACHE_TTL_SECONDS

\* `if cached_data:` and `(time.time() - timestamp) < CACHE_TTL_SECONDS`.
Fresh(entry, t) == entry.ts >= 0 /\ t - entry.ts < CACHE_TTL_SECONDS

Returns(resp, ev, kc, rc) ==
    [pc |-> "done", resp |-> resp, ev |-> ev, kc |-> kc, rc |-> rc]

Awaits(pc, ev, kc, rc) ==
    [pc |-> pc, resp |-> NoResp, ev |-> ev, kc |-> kc, rc |-> rc]

\* require_api_key testing only that the header is there.
require_api_key_presence_only(serverKey, key) ==
    IF serverKey = "" THEN TRUE
    ELSE key # ""

\* require_api_key: TRUE when the wrapped handler is entered.
require_api_key(serverKey, key) ==
    IF serverKey = "" THEN TRUE
    ELSE ~(key = "" \/ key # serverKey)

\* get_agent_record without its test of the record's status.
get_agent_record_any_status(agent, ans, t, rc) ==
    IF ans.code = 404 THEN [record |-> NoRecord, rc |-> rc]
    ELSE IF ans.code # 200 THEN [record |-> NoRecord, rc |-> rc]
    ELSE [record |-> ans.data, rc |-> [rc EXCEPT ![agent] = Entry(ans.data, t)]]

\* get_agent_record remembering a 404 as "no such agent".
get_agent_record_negative_caching(agent, ans, t, rc) ==
    IF ans.code = 404
    THEN [record |-> NoRecord, rc |-> [rc EXCEPT ![agent] = Entry(NoRecord, t)]]
    ELSE IF ans.code # 200 THEN [record |-> NoRecord, rc |-> rc]
    ELSE IF ans.data.status # "active" THEN [record |-> NoRecord, rc |-> rc]
    ELSE [record |-> ans.data, rc |-> [rc EXCEPT ![agent] = Entry(ans.data, t)]]

\* get_agent_record falling back on the expired entry when the Directory
\* gives no record.
get_agent_record_stale_if_error(agent, ans, t, rc) ==
    IF ans.code # 200
    THEN [record |-> IF rc[agent].ts >= 0 THEN rc[agent].val ELSE NoRecord, rc |-> rc]
    ELSE IF ans.data.status # "active" THEN [record |-> NoRecord, rc |-> rc]
    ELSE [record |-> ans.data, rc |-> [rc EXCEPT ![agent] = Entry(ans.data, t)]]

\* get_agent_record building the cache anew around the record it fetched.
get_agent_record_cache_rebuilt(agent, ans, t, rc) ==
    IF ans.code = 404 THEN [record |-> NoRecord, rc |-> rc]
    ELSE IF ans.code # 200 THEN [record |-> NoRecord, rc |-> rc]
    ELSE IF ans.data.status # "active" THEN [record |-> NoRecord, rc |-> rc]
    ELSE [record |-> ans.data,
          rc |-> [a \in DOMAIN rc |-> IF a = agent THEN Entry(ans.data, t) ELSE NoRecEntry]]

\* get_agent_record, from the Directory's answer on: the record returned
\* (NoRecord for None) and the record cache.
get_agent_record_response(agent, ans, t, rc) ==
    IF ans.code = 404 THEN [record |-> NoRecord, rc |-> rc]
    ELSE IF ans.code # 200 THEN [record |-> NoRecord, rc |-> rc]
    ELSE IF ans.data.status # "active" THEN [record |-> NoRecord, rc |-> rc]
    ELSE [record |-> ans.data, rc |-> [rc EXCEPT ![agent] = Entry(ans.data, t)]]

\* serialization.load_pem_public_key: the key, "" when it raises.
load_pem_public_key(pem) == IF pem = "garbage" THEN "" ELSE pem

\* get_public_key, from the record on: the key returned ("" for None) and
\* the key cache.
get_public_key_from_record(agent, record, t, kc) ==
    IF record = NoRecord THEN [key |-> "", kc |-> kc]
    ELSE IF record.public_key = "" THEN [key |-> "", kc |-> kc]
    ELSE IF load_pem_public_key(record.public_key) = "" THEN [key |-> "", kc |-> kc]
    ELSE [key |-> load_pem_public_key(record.public_key),
          kc |-> [kc EXCEPT ![agent] = Entry(load_pem_public_key(record.public_key), t)]]

\* a2a_transact posting to whatever the record gives as endpoint.
proxy_transaction_unchecked(record, ev, kc, rc) ==
    IF record.api_endpoint = NullMetadata
    THEN Returns(UnhandledException, ev, kc, rc)
    ELSE Awaits("proxy", Append(ev, "proxy"), kc, rc)

\* a2a_transact, section 4: the endpoint is read off the provider's record
\* and the transaction is posted to it.  On a record whose metadata is null,
\* provider_record.get("metadata", {}) is None and .get raises
\* AttributeError, which nothing catches.
proxy_transaction(record, ev, kc, rc) ==
    IF record.api_endpoint = NullMetadata
    THEN Returns(UnhandledException, ev, kc, rc)
    ELSE IF record.api_endpoint = ""
    THEN Returns(Resp(500, "provider misconfigured"), ev, kc, rc)
    ELSE Awaits("proxy", Append(ev, "proxy"), kc, rc)

\* Section 3 asking the Directory again when it got no provider record.
provider_identified_retrying(record, ev, kc, rc) ==
    IF record = NoRecord
    THEN Awaits("providerFetch", Append(ev, "fetch:provider"), kc, rc)
    ELSE proxy_transaction(record, Append(ev, "providerResolved"), kc, rc)

\* a2a_transact, section 3, once get_agent_record(provider) has returned.
provider_identified(record, ev, kc, rc) ==
    IF record = NoRecord
    THEN Returns(Resp(404, "provider not found or inactive"), ev, kc, rc)
    ELSE proxy_transaction(record, Append(ev, "providerResolved"), kc, rc)

\* a2a_transact, section 3, from the service contract on: the provider's
\* record comes from the record cache or from a Directory fetch.
identify_provider(provider, t, ev, kc, rc) ==
    IF provider = ""
    THEN Returns(Resp(500, "service misconfigured"), ev, kc, rc)
    ELSE IF Fresh(rc[provider], t)
         THEN provider_identified(rc[provider].val, ev, kc, rc)
         ELSE Awaits("providerFetch", Append(ev, "fetch:provider"), kc, rc)

\* a2a_transact testing service_id before it verifies the signature.
verify_signature_after_service_id(r, key, ev, kc, rc) ==
    IF Field(r.body, "service_id") = ""
    THEN Returns(Resp(400, "missing service_id"), ev, kc, rc)
    ELSE IF ~b64decode(r.sig).ok
    THEN Returns(Resp(500, "error during signature verification"), ev, kc, rc)
    ELSE IF ~Ed25519Verify(key, b64decode(r.sig).bytes, canonical_message(r.body))
    THEN Returns(Resp(401, "Invalid signature."), ev, kc, rc)
    ELSE Awaits("svcLookup", ev \o <<"sigOK", "lookup:service">>, kc, rc)

\* a2a_transact, from the consumer's public key on: the signature check and
\* the start of the service lookup.
verify_signature(r, key, ev, kc, rc) ==
    IF ~b64decode(r.sig).ok
    THEN Returns(Resp(500, "error during signature verification"), ev, kc, rc)
    ELSE IF ~Ed25519Verify(key, b64decode(r.sig).bytes, canonical_message(r.body))
    THEN Returns(Resp(401, "Invalid signature."), ev, kc, rc)
    ELSE IF Field(r.body, "service_id") = ""
    THEN Returns(Resp(400, "missing service_id"), Append(ev, "sigOK"), kc, rc)
    ELSE Awaits("svcLookup", ev \o <<"sigOK", "lookup:service">>, kc, rc)

\* a2a_transact, once get_public_key(consumer_agent_id) has returned.
consumer_validated(r, key, ev, kc, rc) ==
    IF key = ""
    THEN Returns(Resp(403, "Failed to verify agent identity"), ev, kc, rc)
    ELSE verify_signature(r, key, Append(ev, "key:" \o key), kc, rc)

\* a2a_transact from its entry to its first network call: the request is
\* parsed and get_public_key consults the key cache, then the record cache.
a2a_transact(r, t, kc, rc) ==
    LET consumer == Field(r.body, "consumer_agent_id")
    IN  IF r.body = <<>> \/ r.sig.sym = <<>> \/ consumer = ""
        THEN Returns(Resp(400, "Malformed A2A request"), <<>>, kc, rc)
        ELSE IF Fresh(kc[consumer], t)
        THEN consumer_validated(r, kc[consumer].val, <<>>, kc, rc)
        ELSE IF Fresh(rc[consumer], t)
        THEN LET got == get_public_key_from_record(consumer, rc[consumer].val, t, kc)
             IN  consumer_validated(r, got.key, <<>>, got.kc, rc)
        ELSE Awaits("consumerFetch", <<"fetch:consumer">>, kc, rc)

\* The router's entry: the decorator, then the handler.
transact_entry(serverKey, r, t, kc, rc) ==
    IF ~require_api_key(serverKey, r.apiKey)
    THEN Returns(Resp(401, "Unauthorized"), <<>>, kc, rc)
    ELSE a2a_transact(r, t, kc, rc)

\* What get_agent_record logs of the Directory's answer: the record's
\* status, or why there is no record.
Logged(who, ans) ==
    who \o (CASE ans.code = 200 -> ans.data.status
               [] ans.code = 404 -> "404"
               [] ans.code = 0 -> "timeout"
               [] OTHER -> "http500")

\* a2a_transact resumed by the Directory's answer to the consumer lookup.
consumer_fetched(r, ans, t, ev, kc, rc) ==
    LET consumer == Field(r.body, "consumer_agent_id")
        rec == get_agent_record_response(consumer, ans, t, rc)
        got == get_public_key_from_record(consumer, rec.record, t, kc)
    IN  consumer_validated(r, got.key, Append(ev, Logged("consumer:", ans)), got.kc, rec.rc)

\* The service lookup without `timeout=3`: a Directory that does not answer
\* leaves the handler in the call.
service_answered_without_timeout(r, ans, t, ev, kc, rc) ==
    IF ans.code = 0
    THEN Awaits("blocked", ev, kc, rc)
    ELSE IF ans.code # 200
    THEN Returns(Resp(404, "Service not found or invalid"),
                 Append(ev, IF ans.code = 404 THEN "service:404" ELSE "service:http500"),
                 kc, rc)
    ELSE identify_provider(ans.provider, t, Append(ev, "serviceResolved"), kc, rc)

\* The service lookup without its test of the Directory's status code.
service_answered_status_unchecked(r, ans, t, ev, kc, rc) ==
    IF ans.code = 0
    THEN Returns(Resp(500, "Failed to contact Trust Directory"),
                 Append(ev, "service:timeout"), kc, rc)
    ELSE identify_provider(ans.provider, t,
                           ev \o <<IF ans.code = 404 THEN "service:404" ELSE "service:other",
                                   "serviceResolved">>, kc, rc)

\* a2a_transact resumed by the Directory's answer to the service lookup:
\* ans.code is the HTTP status, 0 for a RequestException.  A 200 whose JSON
\* body is not an object (a list, null) makes service_contract.get raise
\* AttributeError, which no handler of a2a_transact catches.
service_answered(r, ans, t, ev, kc, rc) ==
    IF ans.code = 0
    THEN Returns(Resp(500, "Failed to contact Trust Directory"),
                 Append(ev, "service:timeout"), kc, rc)
    ELSE IF ans.code # 200
    THEN Returns(Resp(404, "Service not found or invalid"),
                 Append(ev, IF ans.code = 404 THEN "service:404" ELSE "service:http500"),
                 kc, rc)
    ELSE IF ~ans.isObject
    THEN Returns(UnhandledException, Append(ev, "service:notobject"), kc, rc)
    ELSE identify_provider(ans.provider, t, Append(ev, "serviceResolved"), kc, rc)

\* a2a_transact resumed by the Directory's answer to the provider lookup.
provider_fetched(r, ans, t, ev, kc, rc) ==
    LET provider == ServiceProvider(Field(r.body, "service_id"))
        rec == get_agent_record_response(provider, ans, t, rc)
    IN  provider_identified(rec.record, Append(ev, Logged("provider:", ans)), kc, rec.rc)

\* The relay returning the provider's JSON without its status code.
relay_response_status_dropped(ans) ==
    CASE ans.kind = "json" -> {Resp(200, ans.body)}
      [] ans.kind = "nonjson" ->
            {Resp(503, "Provider agent is offline or unreachable."),
             UnhandledException}
      [] OTHER -> {Resp(503, "Provider agent is offline or unreachable.")}

\* The relay without its handler of RequestException.
relay_response_exception_uncaught(ans) ==
    CASE ans.kind = "json" -> {Resp(ans.status, ans.body)}
      [] OTHER -> {UnhandledException}

\* a2a_transact, section 5: the provider's answer is relayed.  A body that
\* is not JSON makes provider_response.json() raise: the JSONDecodeError of
\* requests 2.27 and later is a RequestException (503); the ValueError of
\* older versions is caught by nothing and Flask answers 500.
relay_response(ans) ==
    CASE ans.kind = "json" -> {Resp(ans.status, ans.body)}
      [] ans.kind = "nonjson" ->
            {Resp(503, "Provider agent is offline or unreachable."),
             UnhandledException}
      [] OTHER -> {Resp(503, "Provider agent is offline or unreachable.")}

(***************************************************************************)
(* The HITL gate and the tool surface of the MCP wrapper                   *)
(* (adapters/mcp/mcp_agent_wrapper.py is not among the sources: modelled   *)
(* from the design's sections 4.4 and 6 and from what the tests assert)    *)
(***************************************************************************)

Approval(status, agent, action) ==
    [status |-> status, agent_id |-> agent, action |-> action]

\* GET /approvals/{approval_id} of the Approval Store: the record, or
\* NoApproval for 404.  "ap5" names no action, like the records of
\* test_verify_approval_success.
NoApproval == Approval("unknown", "", "")

ApprovalStore(id) ==
    CASE id = "ap1" -> Approval("approved", "A", "write_file")
      [] id = "ap2" -> Approval("pending", "A", "write_file")
      [] id = "ap3" -> Approval("approved", "B", "write_file")
      [] id = "ap4" -> Approval("approved", "A", "delete_file")
      [] id = "ap5" -> Approval("approved", "A", "")
      [] id = "ap6" -> Approval("approved", "A", "transaction.commit")
      [] OTHER -> NoApproval

ApprovalIds == {"ap1", "ap2", "ap3", "ap4", "ap5", "ap6", "ap9"}

\* _verify_approval with its tool_name and agent_id arguments exchanged.
verify_approval_swapped(record, action, agent) ==
    /\ record.status = "approved"
    /\ record.agent_id = action
    /\ record.action \in {"", agent}

\* _verify_approval(approval_id, tool_name, agent_id), from the Store's
\* record on: approved, granted to this agent, and for this action when the
\* record names one.
verify_approval(record, action, agent) ==
    /\ record.status = "approved"
    /\ record.agent_id = agent
    /\ record.action \in {"", action}

\* checkCompliance of section 4.4, as a function of the Store's record.
checkCompliance(agent, action, approval) ==
    IF action \notin Committing THEN "Allow"
    ELSE IF approval = "" THEN "RequireApproval"
    ELSE IF verify_approval(ApprovalStore(approval), action, agent) THEN "Allow"
    ELSE "Reject"

\* A request to POST /v1/tools/call of a wrapper running in `mode`
\* ("standalone" or "production").
ToolCall(mode, agentHdr, sig, tool, approval) ==
    [surface |-> mode, apiKey |-> "",
     body |-> <<Pair("payload",
                     Obj(SelectSeq(<<Pair("tool_name", tool), Pair("approval_id", approval)>>,
                                   LAMBDA p : p.v # "")))>>,
     sig |-> sig, agentHdr |-> agentHdr, path |-> "/v1/tools/call"]

\* A request to POST /v1/tools/list of a wrapper running in `mode`.
ToolList(mode, agentHdr, sig) ==
    [surface |-> mode, apiKey |-> "", body |-> <<Pair("payload", Obj(<<>>))>>,
     sig |-> sig, agentHdr |-> agentHdr, path |-> "/v1/tools/list"]

\* str.lower() of a header name, for the names the model sends.
Lower_unchanged(name) == name

Lower(name) ==
    CASE name \in {"X-Agent-Signature", "x-agent-signature", "X-AGENT-SIGNATURE"} ->
            "x-agent-signature"
      [] name \in {"X-Amorce-Agent-ID", "x-amorce-agent-id", "X-AMORCE-AGENT-ID"} ->
            "x-amorce-agent-id"
      [] OTHER -> "content-type"

Header(name, value) == [name |-> name, value |-> value]

\* The loop over request.headers.items(): the value of the last header whose
\* lowered name is `wanted`, "" when there is none (None and "" are both
\* falsy, and the only use is a truth test).
RECURSIVE HeaderValue(_, _)
HeaderValue(headers, wanted) ==
    IF headers = <<>> THEN ""
    ELSE IF Lower(headers[Len(headers)].name) = wanted
         THEN headers[Len(headers)].value
         ELSE HeaderValue(SubSeq(headers, 1, Len(headers) - 1), wanted)

\* request.get_data(): whether json.loads accepts it, and the object it
\* yields.
RequestData(parses, obj) == [parses |-> parses, obj |-> obj]

\* What a call returns (StandaloneVerified) or raises; `by` tells whether it
\* was settled here or handed to verify_request.
StandaloneVerified(agent, payload) ==
    [raised |-> "", agent_id |-> agent, payload |-> payload, by |-> "standalone"]

Raises(exc) == [raised |-> exc, agent_id |-> "", payload |-> <<>>, by |-> "standalone"]

\* _verify_request_with_standalone, the branch of standalone mode.
standalone_check(headers, data) ==
    IF HeaderValue(headers, "x-agent-signature") = ""
    THEN Raises("AmorceSecurityError")
    ELSE IF HeaderValue(headers, "x-amorce-agent-id") = ""
    THEN Raises("AmorceSecurityError")
    ELSE IF ~data.parses
    THEN Raises("JSONDecodeError")
    ELSE StandaloneVerified(HeaderValue(headers, "x-amorce-agent-id"), data.obj)

\* The headers of a request to the tool surface.
HeadersOf(r) ==
    (IF r.sig.sym = <<>> THEN <<>> ELSE <<Header("X-Agent-Signature", "signature")>>)
    \o (IF r.agentHdr = "" THEN <<>> ELSE <<Header("X-Amorce-Agent-ID", r.agentHdr)>>)

\* _verify_request_with_standalone taking the agent id header at its word.
verify_request_with_standalone_unsigned(r, dir) ==
    IF r.agentHdr \in AgentIds THEN r.agentHdr ELSE ""

\* _verify_request_with_standalone: the verified agent id, "" when
\* AmorceSecurityError is raised.  In production mode verify_request checks
\* the signature over the canonical body under the agent's Directory key.
verify_request_with_standalone(r, dir) ==
    IF r.surface = "standalone"
    THEN standalone_check(HeadersOf(r), RequestData(TRUE, r.body)).agent_id
    ELSE IF /\ r.agentHdr \in AgentIds
            /\ dir[r.agentHdr].status = "active"
            /\ b64decode(r.sig).ok
            /\ Ed25519Verify(dir[r.agentHdr].public_key, b64decode(r.sig).bytes,
                             canonical_message(r.body))
         THEN r.agentHdr
         ELSE ""

HitlResp(status, body, hitl) == [status |-> status, body |-> body, requires_hitl |-> hitl]

\* POST /v1/tools/list: the tools are listed for a verified request.
tools_list(r, dir, kc, rc) ==
    IF verify_request_with_standalone(r, dir) = ""
    THEN Returns(Resp(401, "Unauthorized"), <<>>, kc, rc)
    ELSE Returns(Resp(200, "tools"), <<"verified", "listed">>, kc, rc)

\* POST /v1/tools/call asking an approval for every tool.
tools_call_all_gated(r, dir, kc, rc) ==
    LET agent == verify_request_with_standalone(r, dir)
        tool == Get(Payload(r.body), "tool_name")
        approval == Get(Payload(r.body), "approval_id")
    IN  IF agent = ""
        THEN Returns(Resp(401, "Unauthorized"), <<>>, kc, rc)
        ELSE IF tool = None
        THEN Returns(Resp(400, "Missing tool_name"), <<"verified">>, kc, rc)
        ELSE IF approval = None
        THEN Returns(HitlResp(403, "HITL approval required", TRUE), <<"verified">>, kc, rc)
        ELSE Awaits("approvalLookup", <<"verified", "lookup:approval">>, kc, rc)

\* POST /v1/tools/call from its entry to its first network call.
tools_call(r, dir, kc, rc) ==
    LET agent == verify_request_with_standalone(r, dir)
        tool == Get(Payload(r.body), "tool_name")
        approval == Get(Payload(r.body), "approval_id")
    IN  IF agent = ""
        THEN Returns(Resp(401, "Unauthorized"), <<>>, kc, rc)
        ELSE IF tool = None
        THEN Returns(Resp(400, "Missing tool_name"), <<"verified">>, kc, rc)
        ELSE IF tool \notin Committing
        THEN Awaits("toolExec", <<"verified", "execute">>, kc, rc)
        ELSE IF approval = None
        THEN Returns(HitlResp(403, "HITL approval required", TRUE), <<"verified">>, kc, rc)
        ELSE Awaits("approvalLookup", <<"verified", "lookup:approval">>, kc, rc)

\* tools/call resumed by the Approval Store's answer (code 0: no answer).
approval_answered(r, ans, ev, kc, rc) ==
    IF ans.code = 0
    THEN Returns(Resp(503, "approval store unavailable"),
                 Append(ev, "approval:unavailable"), kc, rc)
    ELSE IF ans.code # 200
    THEN Returns(Resp(403, "Invalid or expired approval"), Append(ev, "approval:unknown"), kc, rc)
    ELSE IF ~verify_approval(ans.record, Get(Payload(r.body), "tool_name"), r.agentHdr)
    THEN Returns(Resp(403, "Invalid or expired approval"), Append(ev, "approval:refused"), kc, rc)
    ELSE Awaits("toolExec", ev \o <<"approval:accepted", "execute">>, kc, rc)

\* tools/call resumed by the end of the tool's execution.
tool_executed(outcome) ==
    CASE outcome = "ok" -> Resp(200, "success")
      [] outcome = "timeout" -> Resp(504, "Tool execution timeout")
      [] OTHER -> Resp(503, "MCP server unavailable")

(***************************************************************************)
(* The requests the model sends                                            *)
(***************************************************************************)

BaseBody == TxBody("A", "S1", PayloadOf("query", ""), "written")

Signed(k, body) == Transact("k1", body, SignatureHeader("genuine", k, body))

TransactRequests ==
    \* well-formed, signed by A's first key: a query, and a commit with each
    \* kind of approval
    { Signed("K1", TxBody("A", "S1", PayloadOf("transaction.commit", ap), "written")) :
        ap \in {"", "ap6", "ap2", "ap1"} }
    \cup {Signed("K1", BaseBody)}
    \* the same body with its keys written in another order; A's second key
    \cup { Signed("K1", TxBody("A", "S1", PayloadOf("query", ""), "sorted")),
           Signed("K2", BaseBody),
           Signed("KE", BaseBody) }
    \* signatures made or damaged in other ways
    \cup { Transact("k1", BaseBody, SignatureHeader(how, "K1", BaseBody)) :
            how \in {"client", "otherbody", "flipped", "truncated", "shortened",
                     "junk", "absent"} }
    \* other services and no service
    \cup { Signed("K1", TxBody("A", sid, PayloadOf("query", ""), "written")) :
            sid \in {"S2", "S3", "S4", "SX", ""} }
    \cup { Transact("k1", TxBody("A", "", PayloadOf("query", ""), "written"),
                    SignatureHeader("flipped", "K1",
                                    TxBody("A", "", PayloadOf("query", ""), "written"))) }
    \* other consumers and no consumer
    \cup { Signed("KX", TxBody(c, "S1", PayloadOf("query", ""), "written")) :
            c \in {"X", "C", ""} }
    \* no X-API-Key, a wrong one
    \cup { Transact(key, BaseBody, SignatureHeader("genuine", "K1", BaseBody)) :
            key \in {"", "wrong"} }

\* Transactions that differ in the identity lookups they need: consumer A
\* with provider B and with provider X, and consumer C, whose record holds
\* no key.
CacheRequests ==
    { Signed("K1", TxBody("A", sid, PayloadOf("query", ""), "written")) :
        sid \in {"S1", "S4"} }
    \cup { Signed("KX", TxBody("C", "S1", PayloadOf("query", ""), "written")) }

\* A's transactions for a service with a provider and an endpoint, for one
\* without provider, and for two whose provider has no endpoint.
ConfigRequests ==
    { Signed("K1", TxBody("A", sid, PayloadOf("query", ""), "written")) :
        sid \in {"S1", "S2", "S3", "S6"} }

\* Two agents that serve each other: A consumes B's service "S1" and B
\* consumes A's service "S5".
KeyRequests ==
    { Signed("K1", TxBody("A", "S1", PayloadOf("query", ""), "written")),
      Signed("KB", TxBody("B", "S5", PayloadOf("query", ""), "written")) }

\* Transactions ending at different steps: one that reaches the provider
\* and one whose signature is wrong.
LiveRequests ==
    { Signed("K1", BaseBody),
      Transact("k1", BaseBody, SignatureHeader("flipped", "K1", BaseBody)) }

\* One transaction sent with the router's key, without a key, and with
\* another key.
ApiKeyRequests ==
    { Transact(key, BaseBody, SignatureHeader("genuine", "K1", BaseBody)) :
        key \in {"k1", "", "wrong"} }

\* The header value the load test sends: no signature of anything.
TestSignature == [sym |-> <<"Z", "Z", "Z", "Z">>, of |-> Forged]

ToolBody(tool, approval) == ToolCall("standalone", "A", TestSignature, tool, approval).body

ToolRequests ==
    { ToolCall("standalone", "A", TestSignature, tool, "") :
        tool \in {"read_file", "write_file", ""} }
    \cup { ToolCall("standalone", "A", TestSignature, "write_file", ap) : ap \in ApprovalIds }
    \cup { ToolCall("standalone", "A", TestSignature, "read_file", "ap9"),
           ToolCall("standalone", "", TestSignature, "read_file", ""),
           ToolCall("standalone", "A", NoHeader, "read_file", "") }
    \cup { ToolCall("production", "A",
                    SignatureHeader(how, "K1", ToolBody(tool, "")), tool, "") :
            how \in {"genuine", "flipped"}, tool \in {"read_file", "write_file"} }

ListBody == ToolList("standalone", "A", TestSignature).body

\* Requests to /v1/tools/list: unsigned, with an empty or unknown agent id,
\* and signed rightly or wrongly for a wrapper in production mode.
ListRequests ==
    { ToolList("standalone", "A", TestSignature),
      ToolList("standalone", "A", NoHeader),
      ToolList("standalone", "", TestSignature),
      ToolList("production", "A", NoHeader),
      ToolList("production", "Q", SignatureHeader("genuine", "K1", ListBody)) }
    \cup { ToolList("production", "A", SignatureHeader(how, "K1", ListBody)) :
             how \in {"genuine", "flipped", "truncated"} }

\* Header names in the spellings clients send, and the headers a request to
\* the wrapper carries: at most one signature header and one agent id
\* header, in either order, after a Content-Type header.
SignatureNames == {"X-Agent-Signature", "x-agent-signature", "X-AGENT-SIGNATURE"}

AgentIdNames == {"X-Amorce-Agent-ID", "x-amorce-agent-id"}

StandaloneHeaders ==
    LET sigs == {<<>>} \cup {<<Header(n, v)>> : n \in SignatureNames,
                                                v \in {"", "test-signature", "AAAA"}}
        ids == {<<>>} \cup {<<Header(n, v)>> : n \in AgentIdNames, v \in {"", "A"}}
    IN  {<<Header("Content-Type", "application/json")>> \o s \o i : s \in sigs, i \in ids}
        \cup {<<Header("Content-Type", "application/json")>> \o i \o s : s \in sigs, i \in ids}

\* The transactions that differ in what the compliance gate looks at.
GateTransactRequests ==
    { Signed("K1", TxBody("A", "S1", PayloadOf(i, ap), "written")) :
        i \in Intents, ap \in {"", "ap6", "ap2", "ap1"} }

\* The messages handed to a signer: transaction bodies, and the empty task.
CodecMessages ==
    { TxBody(c, sid, PayloadOf(i, ap), order) :
        c \in {"A", "B", ""}, sid \in {"S1", "S2", ""}, i \in Intents,
        ap \in {"", "ap1"}, order \in {"written", "sorted"} }
    \cup {<<>>}

(***************************************************************************)
(* State                                                                   *)
(***************************************************************************)

VARIABLES
    now,                 \* time.time()
    directory,           \* the Trust Directory's record of each agent id
    dirChanges,          \* how many times the Directory's records changed
    AGENT_API_KEY,       \* the router's key ("" when the variable is unset)
    PUBLIC_KEY_CACHE,    \* agent id -> (key, timestamp)
    AGENT_RECORD_CACHE,  \* agent id -> (record, timestamp)
    pc,                  \* each handler's position
    req,                 \* the request a handler serves
    resp,                \* the response it returned
    events,              \* the steps it took, in order
    snap,                \* the Directory's answer on its way to the handler
    received,            \* how many requests the handlers received
    hitlDenied,          \* the requests answered 403 requires_hitl so far
    codec,               \* a message on its way from the signer to the verifier
    regKey,              \* the public key the Directory held for the request's
                         \* sender when the request was received
    verification,        \* a call of _verify_request_with_standalone
    outbound,            \* the call a handler made to the provider's endpoint
    conversation         \* a run of the client's run_ai_conversation_loop

vars ==
    <<now, directory, dirChanges, AGENT_API_KEY, PUBLIC_KEY_CACHE, AGENT_RECORD_CACHE,
      pc, req, resp, events, snap, received, hitlDenied, codec, regKey, verification,
      outbound, conversation>>

NoAnswer == [code |-> -1, data |-> NoRecord]

NoRequest == Transact("", <<>>, NoHeader)

Unregistered == Record("unregistered", "", "")

InitDirectory ==
    [a \in AgentIds |->
        CASE a = "A" -> Record("active", "K1", "")
          [] a = "B" -> Record("active", "KB", "E")
          [] a = "C" -> Record("active", "", "")
          [] a = "D" -> Record("active", "KD", NullMetadata)
          [] OTHER -> Unregistered]

\* No call to a provider.
NoCall == [url |-> "", data |-> <<>>, headers |-> <<>>]

\* requests.post(provider_endpoint, json=body, headers=proxy_headers) sending
\* the body in key order and the headers in another text.
provider_post_canonical(endpoint, body, key) ==
    [url |-> endpoint,
     data |-> canonical_message(body),
     headers |-> SelectSeq(<<Header("X-API-Key", key),
                            Header("Content-Type", "application/json")>>,
                          LAMBDA hd : hd.value # "")]

\* requests.post(provider_endpoint, json=body, headers=proxy_headers): the
\* body is sent as json.dumps(body) writes it, keys in the order they were
\* received; proxy_headers holds AGENT_API_KEY under X-API-Key, and
\* requests leaves out a header whose value is None (the key is unset).
provider_post(endpoint, body, key) ==
    [url |-> endpoint,
     data |-> json_dumps(body, FALSE, ", ", ": "),
     headers |-> SelectSeq(<<Header("X-API-Key", key),
                            Header("Content-Type", "application/json")>>,
                          LAMBDA hd : hd.value # "")]

\* run_ai_conversation_loop is not running.
NoConversation == [stage |-> "idle", turn_counter |-> 1, sent |-> 0, why |-> ""]

\* No call of _verify_request_with_standalone is under way.
NoVerification ==
    [stage |-> "idle", mode |-> "", headers |-> <<>>, data |-> RequestData(TRUE, <<>>),
     outcome |-> Raises("")]

\* No message is being signed.
NoCodec ==
    [stage |-> "idle", by |-> "", msg |-> <<>>, signed |-> <<>>, sig |-> NoHeader,
     verdict |-> ""]

\* The router and the wrapper when they start, with `key` as the value of
\* the environment variable AGENT_API_KEY ("" when it is not set).
ServersStartWith(key) ==
    /\ now = 0
    /\ directory = InitDirectory
    /\ dirChanges = 0
    /\ AGENT_API_KEY = key
    /\ PUBLIC_KEY_CACHE = [a \in AgentIds |-> NoKeyEntry]
    /\ AGENT_RECORD_CACHE = [a \in AgentIds |-> NoRecEntry]
    /\ pc = [h \in Handlers |-> "idle"]
    /\ req = [h \in Handlers |-> NoRequest]
    /\ resp = [h \in Handlers |-> NoResp]
    /\ events = [h \in Handlers |-> <<>>]
    /\ snap = [h \in Handlers |-> NoAnswer]
    /\ received = 0
    /\ hitlDenied = {}
    /\ regKey = [h \in Handlers |-> ""]
    /\ outbound = [h \in Handlers |-> NoCall]

\* The router and the wrapper when they start with their key configured.
ServersStart == ServersStartWith("k1")

Init == ServersStart /\ codec = NoCodec /\ verification = NoVerification /\ conversation = NoConversation

\* The router started with or without AGENT_API_KEY in its environment.
ApiKeyInit ==
    /\ \E key \in {"k1", ""} : ServersStartWith(key)
    /\ codec = NoCodec
    /\ verification = NoVerification /\ conversation = NoConversation

\* A signer is handed one of the messages.
CodecInit ==
    /\ ServersStart
    /\ \E m \in CodecMessages : codec = [NoCodec EXCEPT !.stage = "drawn", !.msg = m]
    /\ verification = NoVerification /\ conversation = NoConversation

\* The wrapper has received a request: its mode, the request's headers and
\* the request's data.
StandaloneInit ==
    /\ ServersStart
    /\ codec = NoCodec
    /\ \E mode \in {"standalone", "production"} :
       \E headers \in StandaloneHeaders :
       \E data \in {RequestData(TRUE, ToolBody("read_file", "")), RequestData(FALSE, <<>>)} :
          verification = [NoVerification EXCEPT !.stage = "received", !.mode = mode,
                                                !.headers = headers, !.data = data]
    /\ conversation = NoConversation

(***************************************************************************)
(* Actions                                                                 *)
(***************************************************************************)

\* The handler takes the position, response, log and caches of outcome m.
Install(h, m) ==
    /\ pc' = [pc EXCEPT ![h] = m.pc]
    /\ resp' = [resp EXCEPT ![h] = m.resp]
    /\ events' = [events EXCEPT ![h] = m.ev]
    /\ PUBLIC_KEY_CACHE' = m.kc
    /\ AGENT_RECORD_CACHE' = m.rc
    /\ hitlDenied' =
          IF m.resp.requires_hitl THEN hitlDenied \cup {req'[h].body} ELSE hitlDenied
    /\ outbound' =
          [outbound EXCEPT ![h] =
              IF m.pc = "proxy"
              THEN provider_post(
                      m.rc[ServiceProvider(Field(req[h].body, "service_id"))].val.api_endpoint,
                      req[h].body, AGENT_API_KEY)
              ELSE IF "proxy" \in Range(m.ev) THEN outbound[h] ELSE NoCall]

\* The agent a request says it is from.
Sender(r) ==
    IF r.surface = "transact" THEN Field(r.body, "consumer_agent_id") ELSE r.agentHdr

\* The public key of an agent's Directory record now ("" when it has none).
RegisteredKey(agent) ==
    IF agent \in AgentIds THEN directory[agent].public_key ELSE ""

\* The entry of a router that remembers the transactions it has answered 200
\* and refuses to process them again.
Receive_deduplicating(h, r) ==
    /\ pc[h] \in {"idle", "done"}
    /\ received < MaxRequests
    /\ received' = received + 1
    /\ req' = [req EXCEPT ![h] = r]
    /\ snap' = [snap EXCEPT ![h] = NoAnswer]
    /\ Install(h, IF \E g \in Handlers :
                        pc[g] = "done" /\ req[g] = r /\ resp[g].status = 200
                  THEN Returns(Resp(409, "duplicate transaction"), <<>>,
                               PUBLIC_KEY_CACHE, AGENT_RECORD_CACHE)
                  ELSE IF r.surface = "transact"
                  THEN transact_entry(AGENT_API_KEY, r, now, PUBLIC_KEY_CACHE,
                                      AGENT_RECORD_CACHE)
                  ELSE tools_call(r, directory, PUBLIC_KEY_CACHE, AGENT_RECORD_CACHE))
    /\ regKey' = [regKey EXCEPT ![h] = RegisteredKey(Sender(r))]
    /\ UNCHANGED <<conversation, codec, verification, now, directory, dirChanges, AGENT_API_KEY>>

\* A handler receives request r and runs to its first network call.
Receive(h, r) ==
    /\ pc[h] \in {"idle", "done"}
    /\ received < MaxRequests
    /\ received' = received + 1
    /\ req' = [req EXCEPT ![h] = r]
    /\ snap' = [snap EXCEPT ![h] = NoAnswer]
    /\ Install(h, IF r.surface = "transact"
                  THEN transact_entry(AGENT_API_KEY, r, now, PUBLIC_KEY_CACHE,
                                      AGENT_RECORD_CACHE)
                  ELSE IF r.path = "/v1/tools/list"
                  THEN tools_list(r, directory, PUBLIC_KEY_CACHE, AGENT_RECORD_CACHE)
                  ELSE tools_call(r, directory, PUBLIC_KEY_CACHE, AGENT_RECORD_CACHE))
    /\ regKey' = [regKey EXCEPT ![h] = RegisteredKey(Sender(r))]
    /\ UNCHANGED <<conversation, codec, verification, now, directory, dirChanges, AGENT_API_KEY>>

\* The agent id a handler's pending Directory lookup is about.
LookedUp(h) ==
    IF pc[h] = "consumerFetch"
    THEN Field(req[h].body, "consumer_agent_id")
    ELSE ServiceProvider(Field(req[h].body, "service_id"))

\* GET /api/v1/lookup/{agent_id} as the Directory answers it now.
DirectoryAnswer(agent) ==
    IF agent \notin AgentIds \/ directory[agent] = Unregistered
    THEN [code |-> 404, data |-> NoRecord]
    ELSE [code |-> 200, data |-> directory[agent]]

FaultAnswer(fault) ==
    [code |-> IF fault = "timeout" THEN 0 ELSE 500, data |-> NoRecord]

\* The Directory reads its record for a pending lookup, or the lookup fails.
DirectoryResponds(h) ==
    /\ pc[h] \in {"consumerFetch", "providerFetch"}
    /\ snap[h] = NoAnswer
    /\ \E ans \in {DirectoryAnswer(LookedUp(h))} \cup {FaultAnswer(f) : f \in DirectoryFaults} :
          snap' = [snap EXCEPT ![h] = ans]
    /\ UNCHANGED <<conversation, codec, verification, outbound, regKey, now, directory, dirChanges, AGENT_API_KEY, PUBLIC_KEY_CACHE,
                   AGENT_RECORD_CACHE, pc, req, resp, events, received, hitlDenied>>

\* The answer to the consumer lookup reaches the handler.
ConsumerFetched(h) ==
    /\ pc[h] = "consumerFetch"
    /\ snap[h] # NoAnswer
    /\ Install(h, consumer_fetched(req[h], snap[h], now, events[h],
                                   PUBLIC_KEY_CACHE, AGENT_RECORD_CACHE))
    /\ snap' = [snap EXCEPT ![h] = NoAnswer]
    /\ UNCHANGED <<conversation, codec, verification, regKey, now, directory, dirChanges, AGENT_API_KEY, req, received>>

\* GET /api/v1/services/{service_id} is answered.
ServiceAnswer(sid) ==
    IF sid \in ServiceIds
    THEN [code |-> 200, provider |-> ServiceProvider(sid), isObject |-> TRUE]
    ELSE [code |-> 404, provider |-> "", isObject |-> TRUE]

\* The service lookup fails (no answer, 500), or is answered 200 with a
\* JSON body that is not an object.
ServiceFaults ==
    {[code |-> c, provider |-> "", isObject |-> TRUE] : c \in {0, 500}}
    \cup {[code |-> 200, provider |-> "", isObject |-> FALSE]}

ServiceAnswered(h) ==
    /\ pc[h] = "svcLookup"
    /\ \E ans \in {ServiceAnswer(Field(req[h].body, "service_id"))} \cup ServiceFaults :
          Install(h, service_answered(req[h], ans, now, events[h],
                                      PUBLIC_KEY_CACHE, AGENT_RECORD_CACHE))
    /\ UNCHANGED <<conversation, codec, verification, regKey, now, directory, dirChanges, AGENT_API_KEY, req, snap, received>>

\* The answer to the provider lookup reaches the handler.
ProviderFetched(h) ==
    /\ pc[h] = "providerFetch"
    /\ snap[h] # NoAnswer
    /\ Install(h, provider_fetched(req[h], snap[h], now, events[h],
                                   PUBLIC_KEY_CACHE, AGENT_RECORD_CACHE))
    /\ snap' = [snap EXCEPT ![h] = NoAnswer]
    /\ UNCHANGED <<conversation, codec, verification, regKey, now, directory, dirChanges, AGENT_API_KEY, req, received>>

\* The provider endpoint answers the proxied call, or does not.
ProviderAnswered(h) ==
    /\ pc[h] = "proxy"
    /\ \E ans \in ProviderAnswers : \E out \in relay_response(ans) :
          Install(h, Returns(out, Append(events[h], "relayed:" \o ans.tag),
                             PUBLIC_KEY_CACHE, AGENT_RECORD_CACHE))
    /\ UNCHANGED <<conversation, codec, verification, regKey, now, directory, dirChanges, AGENT_API_KEY, req, snap, received>>

\* The Approval Store answers the wrapper's lookup, or does not.
ApprovalAnswered(h) ==
    /\ pc[h] = "approvalLookup"
    /\ \E ans \in { [code |-> IF ApprovalStore(Get(Payload(req[h].body), "approval_id"))
                                  = NoApproval THEN 404 ELSE 200,
                     record |-> ApprovalStore(Get(Payload(req[h].body), "approval_id"))],
                    [code |-> 0, record |-> NoApproval] } :
          Install(h, approval_answered(req[h], ans, events[h],
                                       PUBLIC_KEY_CACHE, AGENT_RECORD_CACHE))
    /\ UNCHANGED <<conversation, codec, verification, regKey, now, directory, dirChanges, AGENT_API_KEY, req, snap, received>>

\* The tool's execution ends.
ToolExecuted(h) ==
    /\ pc[h] = "toolExec"
    /\ \E outcome \in {"ok", "timeout", "connection"} :
          Install(h, Returns(tool_executed(outcome), Append(events[h], "tool:" \o outcome),
                             PUBLIC_KEY_CACHE, AGENT_RECORD_CACHE))
    /\ UNCHANGED <<conversation, codec, verification, regKey, now, directory, dirChanges, AGENT_API_KEY, req, snap, received>>

\* Time passes.
Tick ==
    /\ now < MaxTicks * TickStep
    /\ now' = now + TickStep
    /\ UNCHANGED <<conversation, codec, verification, outbound, regKey, directory, dirChanges, AGENT_API_KEY, PUBLIC_KEY_CACHE,
                   AGENT_RECORD_CACHE, pc, req, resp, events, snap, received, hitlDenied>>

DirectoryChange(a, record) ==
    /\ dirChanges < MaxDirChanges
    /\ dirChanges' = dirChanges + 1
    /\ directory' = [directory EXCEPT ![a] = record]
    /\ UNCHANGED <<conversation, codec, verification, outbound, regKey, now, AGENT_API_KEY, PUBLIC_KEY_CACHE, AGENT_RECORD_CACHE,
                   pc, req, resp, events, snap, received, hitlDenied>>

\* The registration process changes an agent's status ...
DirSetStatus(a, status) ==
    /\ directory[a] # Unregistered
    /\ directory[a].status # status
    /\ DirectoryChange(a, [directory[a] EXCEPT !.status = status])

\* ... or replaces A's public key.
DirRotateKey ==
    /\ directory["A"].public_key = "K1"
    /\ DirectoryChange("A", [directory["A"] EXCEPT !.public_key = "K2"])

\* ... or registers agent X, which the Directory did not know.
DirRegister ==
    /\ directory["X"] = Unregistered
    /\ DirectoryChange("X", Record("active", "KX", "EX"))

\* The status changes the model lets the registration process make.
StatusChanges ==
    {<<"A", "active">>, <<"A", "suspended">>, <<"B", "suspended">>}

Environment ==
    \/ Tick
    \/ \E c \in StatusChanges : DirSetStatus(c[1], c[2])
    \/ DirRotateKey

\* The router serving the requests of set R with handler h.
RouterStep(h, R) ==
    \/ \E r \in R : Receive(h, r)
    \/ DirectoryResponds(h)
    \/ ConsumerFetched(h)
    \/ ServiceAnswered(h)
    \/ ProviderFetched(h)
    \/ ProviderAnswered(h)

\* The wrapper serving the requests of set R with handler h.
ToolStep(h, R) ==
    \/ \E r \in R : Receive(h, r)
    \/ ApprovalAnswered(h)
    \/ ToolExecuted(h)

\* The router, one request at a time, beside a changing Directory.
Next == RouterStep("h1", TransactRequests) \/ Environment

Spec == Init /\ [][Next]_vars

\* No other handler is between the arrival of a request and its response.
Sequential(h) == \A g \in Handlers \ {h} : pc[g] \in {"idle", "done"}

\* The router serving these transactions one after the other, each with
\* either handler, while time passes, B is suspended and X is registered.
CacheNext ==
    \/ \E h \in Handlers : Sequential(h) /\ RouterStep(h, CacheRequests)
    \/ Tick
    \/ DirSetStatus("B", "suspended")
    \/ DirRegister

CacheSpec == Init /\ [][CacheNext]_vars

\* A handler's pending network call ends: with an answer, or by its timeout
\* (3 s for a Directory call, 10 s for the provider call).
CallReturns(h) ==
    \/ DirectoryResponds(h)
    \/ ConsumerFetched(h)
    \/ ServiceAnswered(h)
    \/ ProviderFetched(h)
    \/ ProviderAnswered(h)

\* Both handlers serving transactions at the same time.
LiveNext == \E h \in Handlers : RouterStep(h, LiveRequests)

\* Every network call of every handler ends; requests need not arrive.
LiveSpec ==
    /\ Init
    /\ [][LiveNext]_vars
    /\ \A h \in Handlers : WF_vars(CallReturns(h))

\* The router, with and without a configured key, one request at a time.
ApiKeyNext == RouterStep("h1", ApiKeyRequests)

ApiKeySpec == ApiKeyInit /\ [][ApiKeyNext]_vars

\* The two surfaces the compliance gate guards, one request at a time,
\* beside a changing Directory.
GateNext ==
    \/ RouterStep("h1", GateTransactRequests)
    \/ ToolStep("h1", ToolRequests)
    \/ \E c \in StatusChanges : DirSetStatus(c[1], c[2])
    \/ DirRotateKey

GateSpec == Init /\ [][GateNext]_vars

\* The wrapper's two endpoints, one request at a time, while an agent's key
\* is rotated in the Directory.
ToolSurfaceNext ==
    \/ ToolStep("h1", ToolRequests \cup ListRequests)
    \/ DirRotateKey

ToolSurfaceSpec == Init /\ [][ToolSurfaceNext]_vars

\* Time passes: to the moment a lookup sent at 0 has come back or, while no
\* handler is inside a network call (each has a timeout of seconds), to the
\* moment one TTL after 0.
Elapse ==
    /\ \E t \in {FetchSeconds, TickStep} :
          /\ now < t
          /\ t = TickStep => \A h \in Handlers : pc[h] \in {"idle", "done"}
          /\ now' = t
    /\ UNCHANGED <<conversation, codec, verification, outbound, regKey, directory, dirChanges, AGENT_API_KEY,
                   PUBLIC_KEY_CACHE, AGENT_RECORD_CACHE, pc, req, resp, events, snap,
                   received, hitlDenied>>

\* The router's handlers running side by side (the caches are module-level
\* dictionaries shared by all of them) while time passes and A's key is
\* rotated in the Directory.
KeyNext ==
    \/ \E h \in Handlers : RouterStep(h, KeyRequests)
    \/ DirRotateKey
    \/ Elapse

KeySpec == Init /\ [][KeyNext]_vars

\* The registration process suspends or revokes A at time 0.
DeactivateAtStart ==
    /\ now = 0
    /\ \E status \in {"suspended", "revoked"} : DirSetStatus("A", status)

\* The router serving A's transactions, one at a time, while time passes and
\* A is deactivated.
StaleNext ==
    \/ RouterStep("h1", {Signed("K1", BaseBody)})
    \/ Elapse
    \/ DeactivateAtStart

StaleSpec == Init /\ [][StaleNext]_vars

\* The router serving transactions for rightly and wrongly configured
\* services, one at a time.
ConfigNext == RouterStep("h1", ConfigRequests) \/ Tick

ConfigSpec == Init /\ [][ConfigNext]_vars

(***************************************************************************)
(* The client's negotiation loop: src/smart_agent.py                       *)
(***************************************************************************)

\* The loop is left through `break`.
Stopped(why) == [conversation EXCEPT !.stage = "stopped", !.why = why]

\* What client.transact returns to the loop: nothing, an error, a response
\* without result, a result that is no ConversationTurn, or a provider turn
\* with its status and the turn_id the provider chose.
ProviderTurn(status, turn_id) == [kind |-> "turn", status |-> status, turn_id |-> turn_id]

TransactResponses ==
    {[kind |-> k, status |-> "", turn_id |-> 0] : k \in {"none", "error", "empty", "unparsable"}}
    \cup {ProviderTurn("TERMINATED", conversation.turn_counter + 1)}
    \cup {ProviderTurn("AWAIT_RESPONSE", t) : t \in {conversation.turn_counter + 1, 0, SAFETY_LIMIT}}

\* The loop from the top of an iteration to client.transact: the model
\* answers, or raises, or says TERMINATE; the turn is built with
\* turn_counter and sent.
turn_composed(brain) ==
    IF brain = "exception" THEN Stopped("brain freeze")
    ELSE IF brain = "TERMINATE" THEN Stopped("agent terminated")
    ELSE [conversation EXCEPT !.stage = "sending", !.sent = @ + 1]

\* The loop from the return of client.transact to the end of the iteration.
transacted(r) ==
    IF r.kind = "none" THEN Stopped("transaction failed")
    ELSE IF r.kind = "error" THEN Stopped("error response")
    ELSE IF r.kind = "empty" THEN Stopped("empty result")
    ELSE IF r.kind = "unparsable" THEN Stopped("unparsable result")
    ELSE IF r.status = "TERMINATED" THEN Stopped("provider terminated")
    ELSE IF r.turn_id + 1 > SAFETY_LIMIT
    THEN [Stopped("safety limit") EXCEPT !.turn_counter = r.turn_id + 1]
    ELSE [conversation EXCEPT !.stage = "thinking", !.turn_counter = r.turn_id + 1]

ConversationStep(next) ==
    /\ conversation' = next
    /\ UNCHANGED <<codec, verification, outbound, now, directory, dirChanges, AGENT_API_KEY,
                   PUBLIC_KEY_CACHE, AGENT_RECORD_CACHE, pc, req, resp, events, snap,
                   received, hitlDenied, regKey>>

\* The loop asks the model and sends the turn, or breaks.
ComposeTurn ==
    /\ conversation.stage = "thinking"
    /\ conversation.sent < MaxTurnsSent
    /\ \E brain \in {"message", "exception", "TERMINATE"} : ConversationStep(turn_composed(brain))

\* client.transact returns.
TransactReturns ==
    /\ conversation.stage = "sending"
    /\ \E r \in TransactResponses : ConversationStep(transacted(r))

ConversationInit ==
    /\ ServersStart
    /\ codec = NoCodec
    /\ verification = NoVerification
    /\ conversation = [NoConversation EXCEPT !.stage = "thinking"]

ConversationNext == ComposeTurn \/ TransactReturns

\* run_ai_conversation_loop against every provider.
ConversationSpec == ConversationInit /\ [][ConversationNext]_vars

NotServing ==
    UNCHANGED <<now, directory, dirChanges, AGENT_API_KEY, PUBLIC_KEY_CACHE,
                AGENT_RECORD_CACHE, pc, req, resp, events, snap, received, hitlDenied,
                regKey, verification, outbound, conversation>>

\* agent_client._sign_task(task_object) with the key pair "K1": None for a
\* falsy task, else the task's compact sorted JSON, signed and base64-encoded.
SignTask ==
    /\ codec.stage = "drawn"
    /\ codec' = IF codec.msg = <<>>
                THEN [codec EXCEPT !.stage = "unsigned", !.by = "agent_client"]
                ELSE [codec EXCEPT !.stage = "signed", !.by = "agent_client",
                                   !.signed = task_json(codec.msg),
                                   !.sig = b64encode(Sign("K1", task_json(codec.msg)))]
    /\ NotServing

\* The clients of the tests sign json.dumps(payload, sort_keys=True).
SignPayload ==
    /\ codec.stage = "drawn"
    /\ codec' = [codec EXCEPT !.stage = "signed", !.by = "test_client",
                              !.signed = signer_message(codec.msg),
                              !.sig = b64encode(Sign("K1", signer_message(codec.msg)))]
    /\ NotServing

\* The orchestrator's signature check of the message and its signature,
\* under the public key "K1".
VerifyTask ==
    /\ codec.stage = "signed"
    /\ LET m == verify_signature(Transact("k1", codec.msg, codec.sig), "K1", <<>>,
                                 PUBLIC_KEY_CACHE, AGENT_RECORD_CACHE)
       IN  codec' = [codec EXCEPT !.stage = "verified",
                                  !.verdict = IF "sigOK" \in Range(m.ev)
                                              THEN "verified"
                                              ELSE IF m.resp.status = 401
                                                   THEN "InvalidSignature"
                                                   ELSE "error"]
    /\ NotServing

\* The wrapper calls _verify_request_with_standalone for the request.
VerifyRequest ==
    /\ verification.stage = "received"
    /\ verification' =
          [verification EXCEPT
              !.stage = "returned",
              !.outcome = IF verification.mode = "standalone"
                          THEN standalone_check(verification.headers, verification.data)
                          ELSE [Raises("") EXCEPT !.by = "verify_request"]]
    /\ UNCHANGED <<conversation, codec, now, directory, dirChanges, AGENT_API_KEY, PUBLIC_KEY_CACHE,
                   AGENT_RECORD_CACHE, pc, req, resp, events, snap, received, hitlDenied,
                   regKey, outbound>>

\* _verify_request_with_standalone over every mode, header list and body.
StandaloneSpec == StandaloneInit /\ [][VerifyRequest]_vars

CodecNext == SignTask \/ SignPayload \/ VerifyTask

\* Signer and verifier, over every message of CodecMessages.
CodecSpec == CodecInit /\ [][CodecNext]_vars

(***************************************************************************)
(* Properties                                                              *)
(***************************************************************************)

Keys == {"K1", "K2", "KB", "KX", "KE"}

\* Handler h logged step e; it logged a before b.
Has(h, e) == e \in Range(events[h])

Before(h, a, b) ==
    \E i, j \in DOMAIN events[h] : i < j /\ events[h][i] = a /\ events[h][j] = b

Serving(h) == pc[h] # "idle"

IsTransact(h) == Serving(h) /\ req[h].surface = "transact"

IsToolCall(h) == Serving(h) /\ req[h].surface # "transact"

\* The intent or tool the request asks for (None when it names none), and
\* the approval_id it carries ("" when it carries none).
RequestedAction(h) ==
    Get(Payload(req[h].body), IF IsTransact(h) THEN "intent" ELSE "tool_name")

ApprovalOf(h) ==
    IF HasKey(Payload(req[h].body), "approval_id")
    THEN Get(Payload(req[h].body), "approval_id")
    ELSE ""

\* The request passed the authentication of its surface.
Authenticated(h) ==
    \/ IsTransact(h) /\ Has(h, "sigOK")
    \/ IsToolCall(h) /\ Has(h, "verified")

\* The transaction was posted to a provider, or the tool was started.
Executed(h) == Has(h, "proxy") \/ Has(h, "execute")

\* The header is the signature, by private key k, of the canonical encoding
\* (sorted keys) of exactly the body sent.
CorrectlySignedWith(h, k) ==
    req[h].sig = b64encode(Sign(k, signer_message(req[h].body)))

\* The header decodes to a signature that verifies under public key k.
SignatureVerifies(h, k) ==
    /\ b64decode(req[h].sig).ok
    /\ Ed25519Verify(k, b64decode(req[h].sig).bytes, signer_message(req[h].body))

\* C1: the router posts a transaction to a provider only after, in this
\* order, the signature was verified, the compliance gate allowed it, the
\* service was resolved and the provider was resolved.
C1_ProviderCallOnlyAfterAllSteps ==
    \A h \in Handlers :
        Has(h, "proxy") =>
            /\ \E k \in Keys : Before(h, "key:" \o k, "sigOK")
            /\ checkCompliance(Sender(req[h]), RequestedAction(h), ApprovalOf(h)) = "Allow"
            /\ Before(h, "sigOK", "serviceResolved")
            /\ Before(h, "serviceResolved", "providerResolved")
            /\ Before(h, "providerResolved", "proxy")

\* C2: a transaction whose signature does not verify under the consumer's
\* public key is answered 401, and no service lookup, provider lookup or
\* provider call is made for it.
C2_UnverifiedSignatureIs401 ==
    \A h \in Handlers : \A k \in Keys :
        (IsTransact(h) /\ Has(h, "key:" \o k) /\ ~SignatureVerifies(h, k)) =>
            /\ pc[h] = "done"
            /\ resp[h].status = 401
            /\ ~Has(h, "lookup:service")
            /\ ~Has(h, "fetch:provider")
            /\ ~Has(h, "proxy")

C4_SignerAndVerifierSameBytes ==
    (codec.by = "agent_client" /\ codec.stage \in {"signed", "verified"}) =>
        /\ codec.signed = canonical_message(codec.msg)
        /\ codec.stage = "verified" => codec.verdict = "verified"

\* C5: a transaction whose consumer is not cached and whose Directory
\* record has a status other than active is answered 403, and no service
\* lookup or provider call is made for it.
C5_InactiveConsumerIs403 ==
    \A h \in Handlers : \A st \in Statuses \ {"active"} :
        (IsTransact(h) /\ Has(h, "consumer:" \o st)) =>
            /\ pc[h] = "done"
            /\ resp[h].status = 403
            /\ ~Has(h, "lookup:service")
            /\ ~Has(h, "proxy")

\* A correctly signed transaction of a suspended consumer was answered 403.
C5_Witness ==
    \E h \in Handlers :
        /\ IsTransact(h)
        /\ CorrectlySignedWith(h, "K1")
        /\ Has(h, "fetch:consumer")
        /\ Has(h, "consumer:suspended")
        /\ resp[h].status = 403

\* C6: an authenticated request for a committing intent or tool that
\* carries no approval_id is answered 403 with requires_hitl true and is
\* neither proxied nor executed.
C6_CommitWithoutApprovalIs403 ==
    \A h \in Handlers :
        (Authenticated(h) /\ RequestedAction(h) \in Committing /\ ApprovalOf(h) = "") =>
            /\ ~Executed(h)
            /\ pc[h] = "done" => (resp[h].status = 403 /\ resp[h].requires_hitl)

\* C7: an authenticated request for a committing intent or tool whose
\* approval_id is unknown to the Approval Store, not approved, or granted to
\* another agent is answered 403 without requires_hitl and is neither
\* proxied nor executed.
C7_InvalidApprovalRejected ==
    \A h \in Handlers :
        (/\ Authenticated(h)
         /\ RequestedAction(h) \in Committing
         /\ ApprovalOf(h) # ""
         /\ ~Has(h, "approval:unavailable")
         /\ \/ ApprovalStore(ApprovalOf(h)) = NoApproval
            \/ ApprovalStore(ApprovalOf(h)).status # "approved"
            \/ ApprovalStore(ApprovalOf(h)).agent_id # Sender(req[h])) =>
            /\ ~Executed(h)
            /\ pc[h] = "done" => (resp[h].status = 403 /\ ~resp[h].requires_hitl)

\* The approval is approved, granted to the sender, and for the action asked.
ValidApproval(h) ==
    /\ ApprovalOf(h) # ""
    /\ ApprovalStore(ApprovalOf(h)).status = "approved"
    /\ ApprovalStore(ApprovalOf(h)).agent_id = Sender(req[h])
    /\ ApprovalStore(ApprovalOf(h)).action = RequestedAction(h)

\* C8: an authenticated request for a committing intent or tool that
\* carries a valid approval_id passes the gate (it is not answered 403), is
\* executed once the Approval Store has answered, and is answered 200 when
\* the provider or tool succeeds.
C8_ValidApprovalExecutes ==
    \A h \in Handlers :
        (Authenticated(h) /\ RequestedAction(h) \in Committing /\ ValidApproval(h)) =>
            /\ resp[h].status # 403
            /\ (IsToolCall(h) /\ pc[h] = "done" /\ ~Has(h, "approval:unavailable"))
                    => Executed(h)
            /\ (Has(h, "relayed:json200") \/ Has(h, "tool:ok")) => resp[h].status = 200

\* A tool call answered 403 requires_hitl was sent again with a valid
\* approval_id and answered 200.
C8_Witness ==
    \E h \in Handlers :
        /\ IsToolCall(h)
        /\ RequestedAction(h) \in Committing
        /\ ValidApproval(h)
        /\ ToolBody(RequestedAction(h), "") \in hitlDenied
        /\ Has(h, "approval:accepted")
        /\ pc[h] = "done"
        /\ resp[h].status = 200

\* C9: an authenticated request for a committing intent or tool whose
\* approval is approved and granted to the sender, but authorizes another
\* action, is rejected (403) and is neither proxied nor executed.
C9_OtherActionRejected ==
    \A h \in Handlers :
        (/\ Authenticated(h)
         /\ RequestedAction(h) \in Committing
         /\ ApprovalOf(h) # ""
         /\ ~Has(h, "approval:unavailable")
         /\ ApprovalStore(ApprovalOf(h)).status = "approved"
         /\ ApprovalStore(ApprovalOf(h)).agent_id = Sender(req[h])
         /\ ApprovalStore(ApprovalOf(h)).action \notin {"", RequestedAction(h)}) =>
            /\ ~Executed(h)
            /\ pc[h] = "done" => resp[h].status = 403

\* C10: an authenticated request for an intent or tool outside the
\* committing class goes on past the gate (to the service lookup, to the
\* tool) whether or not it carries an approval_id, is not answered 403, and
\* no lookup is made in the Approval Store.
C10_NonCommittingBypassesGate ==
    \A h \in Handlers :
        (/\ Authenticated(h)
         /\ RequestedAction(h) \notin Committing
         /\ RequestedAction(h) # None) =>
            /\ ~Has(h, "lookup:approval")
            /\ resp[h].status # 403
            /\ ~resp[h].requires_hitl
            /\ IsToolCall(h) => Has(h, "execute")
            /\ IsTransact(h) => Has(h, "lookup:service")

\* A tool outside the committing class ran without an approval_id.
C10_Witness ==
    \E h \in Handlers :
        /\ IsToolCall(h)
        /\ RequestedAction(h) = "read_file"
        /\ ApprovalOf(h) = ""
        /\ Has(h, "tool:ok")
        /\ resp[h].status = 200


(***************************************************************************)
(* The identity cache                                                      *)
(***************************************************************************)

\* The provider a transaction's service belongs to.
ProviderOf(r) == ServiceProvider(Field(r.body, "service_id"))

\* The cached record (the cached key) of agent a is younger than the TTL.
YoungerThanTTL(a) ==
    /\ AGENT_RECORD_CACHE[a].ts >= 0
    /\ now - AGENT_RECORD_CACHE[a].ts < CACHE_TTL_SECONDS

KeyYoungerThanTTL(a) ==
    /\ PUBLIC_KEY_CACHE[a].ts >= 0
    /\ now - PUBLIC_KEY_CACHE[a].ts < CACHE_TTL_SECONDS

\* Handler h has a Directory fetch of a's record in flight.
Fetching(h, a) ==
    \/ pc[h] = "consumerFetch" /\ Sender(req[h]) = a
    \/ pc[h] = "providerFetch" /\ ProviderOf(req[h]) = a

\* In this step handler h receives a well-formed transaction of consumer a
\* whose key is not served by the key cache: it looks a's record up.
ConsumerLookupBy(h, a) ==
    /\ pc[h] \in {"idle", "done"}
    /\ received' = received + 1
    /\ \A g \in Handlers \ {h} :
          pc'[g] = pc[g] /\ req'[g] = req[g] /\ resp'[g] = resp[g] /\ events'[g] = events[g]
    /\ req'[h].surface = "transact"
    /\ req'[h].apiKey = AGENT_API_KEY
    /\ req'[h].sig # NoHeader
    /\ Sender(req'[h]) = a
    /\ ~KeyYoungerThanTTL(a)

\* In this step handler h learns that its service belongs to provider a: it
\* looks a's record up.
ProviderLookupBy(h, a) ==
    /\ pc[h] = "svcLookup"
    /\ pc'[h] # "svcLookup"
    /\ "serviceResolved" \in Range(events'[h])
    /\ ProviderOf(req[h]) = a

\* In this step the Directory's answer snap[h] about a reaches handler h.
FetchReturns(h, a) == Fetching(h, a) /\ pc'[h] # pc[h]

\* C11: while the cached record of an agent is younger than the TTL, no
\* Directory fetch for that agent is in flight or started and the entry is
\* left as it is (one fetch in total), and every lookup of the agent is
\* answered with the cached record.
C11_FreshEntryServedWithoutFetch ==
    [][\A h \in Handlers : \A a \in AgentIds :
        YoungerThanTTL(a) =>
            /\ ~Fetching(h, a)
            /\ ~Fetching(h, a)'
            /\ AGENT_RECORD_CACHE'[a] = AGENT_RECORD_CACHE[a]
            /\ ProviderLookupBy(h, a) =>
                  /\ "providerResolved" \in Range(events'[h])
                  /\ pc'[h] = IF AGENT_RECORD_CACHE[a].val.api_endpoint = ""
                              THEN "done" ELSE "proxy"
            /\ ConsumerLookupBy(h, a) =>
                  IF AGENT_RECORD_CACHE[a].val.public_key = ""
                  THEN pc'[h] = "done" /\ resp'[h].status = 403
                  ELSE ("key:" \o AGENT_RECORD_CACHE[a].val.public_key)
                          \in Range(events'[h])]_vars

\* One transaction fetched B's record; the next one, less than the TTL
\* later, got the cached record without a fetch, although the Directory
\* holds another status by now.
C11_Witness ==
    \E g, h \in Handlers :
        /\ g # h
        /\ Has(g, "fetch:provider") /\ Has(g, "provider:active")
        /\ ProviderOf(req[g]) = "B"
        /\ pc[h] = "proxy"
        /\ ProviderOf(req[h]) = "B"
        /\ Has(h, "providerResolved") /\ ~Has(h, "fetch:provider")
        /\ YoungerThanTTL("B")
        /\ directory["B"].status = "suspended"

\* A lookup of an agent whose cached record is as old as the TTL or older
\* starts a Directory fetch.
ExpiredEntryIsRefetched(h, a) ==
    (AGENT_RECORD_CACHE[a].ts >= 0 /\ now - AGENT_RECORD_CACHE[a].ts >= CACHE_TTL_SECONDS) =>
        /\ ProviderLookupBy(h, a) => pc'[h] = "providerFetch"
        /\ ConsumerLookupBy(h, a) => pc'[h] = "consumerFetch"

\* C12 as stated: a lookup at the TTL or later starts a Directory fetch, and
\* the record fetched replaces the expired cache entry whatever its status.
C12_FetchedRecordReplacesEntry ==
    [][\A h \in Handlers : \A a \in AgentIds :
        /\ ExpiredEntryIsRefetched(h, a)
        /\ (FetchReturns(h, a) /\ AGENT_RECORD_CACHE[a].ts >= 0 /\ snap[h].code = 200) =>
              AGENT_RECORD_CACHE'[a] = Entry(snap[h].data, now)]_vars

\* C12: a lookup at the TTL or later starts a Directory fetch; a fetched
\* record whose status is active replaces the cache entry, with the time of
\* the fetch; any other answer leaves the expired entry in place.
C12_ActiveRecordReplacesEntry ==
    [][\A h \in Handlers : \A a \in AgentIds :
        /\ ExpiredEntryIsRefetched(h, a)
        /\ FetchReturns(h, a) =>
              AGENT_RECORD_CACHE'[a] =
                 IF snap[h].code = 200 /\ snap[h].data.status = "active"
                 THEN Entry(snap[h].data, now)
                 ELSE AGENT_RECORD_CACHE[a]]_vars

\* B's record was fetched by one transaction and, the TTL later, fetched
\* again by the next one: the entry carries the time of the second fetch.
C12_Witness ==
    \E g, h \in Handlers :
        /\ g # h
        /\ ProviderOf(req[g]) = "B" /\ Has(g, "provider:active")
        /\ ProviderOf(req[h]) = "B" /\ Has(h, "provider:active")
        /\ AGENT_RECORD_CACHE["B"].ts >= CACHE_TTL_SECONDS
        /\ now = AGENT_RECORD_CACHE["B"].ts

\* C13: a Directory lookup answered 404, answered with an error, or not
\* answered writes nothing to the record cache or the key cache; a lookup of
\* an agent without a cache entry starts a Directory fetch; and the active
\* record such a fetch brings is the one the transaction goes on with.
C13_FailedLookupNotCached ==
    [][\A h \in Handlers : \A a \in AgentIds :
        /\ (FetchReturns(h, a) /\ snap[h].code # 200) =>
              /\ AGENT_RECORD_CACHE' = AGENT_RECORD_CACHE
              /\ PUBLIC_KEY_CACHE' = PUBLIC_KEY_CACHE
        /\ AGENT_RECORD_CACHE[a].ts < 0 =>
              /\ ProviderLookupBy(h, a) => pc'[h] = "providerFetch"
              /\ ConsumerLookupBy(h, a) => pc'[h] = "consumerFetch"
        /\ (FetchReturns(h, a) /\ snap[h].code = 200 /\ snap[h].data.status = "active") =>
              /\ pc[h] = "providerFetch" => "providerResolved" \in Range(events'[h])
              /\ (pc[h] = "consumerFetch" /\ snap[h].data.public_key # "") =>
                    ("key:" \o snap[h].data.public_key) \in Range(events'[h])]_vars

\* One transaction's lookup of provider X was answered 404; X was then
\* registered, and the next transaction's lookup resolved it.
C13_Witness ==
    \E g, h \in Handlers :
        /\ g # h
        /\ ProviderOf(req[g]) = "X" /\ Has(g, "provider:404")
        /\ resp[g].status = 404
        /\ ProviderOf(req[h]) = "X"
        /\ Has(h, "fetch:provider") /\ Has(h, "provider:active")
        /\ Has(h, "providerResolved")
        /\ pc[h] = "proxy"
        /\ AGENT_RECORD_CACHE["X"].val = directory["X"]


(***************************************************************************)
(* The router's answers                                                    *)
(***************************************************************************)

\* The provider's answer to handler h's proxied call was a.
ProviderSaid(h, a) == Has(h, "relayed:" \o a.tag)

\* C14 as stated: when the provider answers the proxied call, the router's
\* response has the provider's status code and the provider's body.
C14_ProviderAnswerRelayed ==
    \A h \in Handlers : \A a \in ProviderAnswers :
        (ProviderSaid(h, a) /\ a.kind # "unreachable") =>
            resp[h] = Resp(a.status, a.body)

\* C14: when the provider answers the proxied call with a JSON body, the
\* router's response has the provider's status code and that body, for
\* success and error statuses alike.
C14_JsonAnswerRelayed ==
    \A h \in Handlers : \A a \in ProviderAnswers :
        (ProviderSaid(h, a) /\ a.kind = "json") =>
            /\ pc[h] = "done"
            /\ resp[h] = Resp(a.status, a.body)

\* A provider's error answer (500 with a JSON body) was relayed as it came.
C14_Witness ==
    \E h \in Handlers :
        /\ Has(h, "proxy")
        /\ Has(h, "relayed:json500")
        /\ resp[h] = Resp(500, "provider_error")

\* The transaction's service_id is one the Directory holds no contract for.
UnknownService(h) ==
    /\ Field(req[h].body, "service_id") # ""
    /\ Field(req[h].body, "service_id") \notin ServiceIds

\* C15: a transaction that passed the signature check and names a service
\* the Directory does not know is answered 404 once the Directory has said
\* so, and no provider lookup and no provider call is made for it.
C15_UnknownServiceIs404 ==
    \A h \in Handlers :
        (IsTransact(h) /\ Has(h, "sigOK") /\ UnknownService(h)) =>
            /\ ~Has(h, "fetch:provider")
            /\ ~Has(h, "providerResolved")
            /\ ~Has(h, "proxy")
            /\ Has(h, "service:404") => (pc[h] = "done" /\ resp[h].status = 404)

\* A correctly signed transaction for an unknown service was answered 404.
C15_Witness ==
    \E h \in Handlers :
        /\ IsTransact(h)
        /\ CorrectlySignedWith(h, "K1")
        /\ Has(h, "sigOK")
        /\ UnknownService(h)
        /\ Has(h, "service:404")
        /\ resp[h].status = 404

\* C16: a proxied call that fails to connect or times out is answered 503.
C16_ProviderUnreachableIs503 ==
    \A h \in Handlers :
        Has(h, "relayed:unreachable") => (pc[h] = "done" /\ resp[h].status = 503)

\* The provider call was made, found no one, and the answer is 503.
C16_Witness ==
    \E h \in Handlers :
        /\ Before(h, "proxy", "relayed:unreachable")
        /\ resp[h].status = 503

\* C17: a transaction one of whose Directory lookups (consumer identity,
\* service contract, provider identity) failed on the network or timed out
\* is answered 503.
C17_DirectoryFailureIs503 ==
    \A h \in Handlers :
        (/\ IsTransact(h)
         /\ pc[h] = "done"
         /\ \/ Has(h, "consumer:timeout")
            \/ Has(h, "service:timeout")
            \/ Has(h, "provider:timeout")) =>
            resp[h].status = 503

\* How many times handler h logged step e for the transaction it serves.
Count(h, e) == Cardinality({i \in DOMAIN events[h] : events[h][i] = e})

\* C18: for one transaction the router makes at most one consumer identity
\* fetch, one service lookup, one provider identity fetch and one provider
\* call, whatever their outcomes.
C18_NoStepRetried ==
    \A h \in Handlers :
        /\ Count(h, "fetch:consumer") <= 1
        /\ Count(h, "lookup:service") <= 1
        /\ Count(h, "fetch:provider") <= 1
        /\ Count(h, "proxy") <= 1

\* A transaction ended by a provider lookup that timed out, after one
\* attempt at each step it reached.
C18_Witness ==
    \E h \in Handlers :
        /\ pc[h] = "done"
        /\ Has(h, "provider:timeout")
        /\ Count(h, "fetch:consumer") = 1
        /\ Count(h, "lookup:service") = 1
        /\ Count(h, "fetch:provider") = 1
        /\ Count(h, "proxy") = 0

\* C19: every transaction a handler has received eventually reaches its
\* terminal outcome, also while the other handler is serving one; a handler
\* has a response exactly when it is done, and the response of a finished
\* transaction does not change.
C19_EveryTransactionTerminates ==
    /\ \A h \in Handlers :
          (pc[h] \notin {"idle", "done"}) ~> (pc[h] = "done" /\ resp[h] # NoResp)
    /\ [](\A h \in Handlers : pc[h] = "done" <=> resp[h] # NoResp)
    /\ [][\A h \in Handlers :
            (pc[h] = "done" /\ events'[h] = events[h] /\ req'[h] = req[h]) =>
                resp'[h] = resp[h]]_vars

\* Two transactions of A were in progress at the same time (both missed the
\* cache before any time had passed) and both are answered.
C19_Witness ==
    /\ now = 0
    /\ \A h \in Handlers :
          /\ pc[h] = "done"
          /\ Has(h, "fetch:consumer")
          /\ Has(h, "consumer:active")
          /\ resp[h].status \in {200, 401, 404, 500, 503}

\* C20: a transaction that carries no X-Agent-Signature header (and a valid
\* X-API-Key) is answered 401.
C20_MissingSignatureIs401 ==
    \A h \in Handlers :
        (/\ IsTransact(h)
         /\ pc[h] = "done"
         /\ require_api_key(AGENT_API_KEY, req[h].apiKey)
         /\ req[h].sig = NoHeader) =>
            resp[h].status = 401


\* The X-Agent-Signature header is present but is not the base64 text of a
\* 64 byte signature: characters were cut, replaced or inserted.
MalformedSignature(h) ==
    /\ req[h].sig # NoHeader
    /\ req[h].sig.sym # b64encode(req[h].sig.of).sym

\* C21: a transaction whose signature value is truncated or malformed is
\* answered 401 once the consumer's key is resolved; it is never answered
\* 500 and never passes the signature check.
C21_MalformedSignatureIs401 ==
    \A h \in Handlers : \A k \in Keys :
        (IsTransact(h) /\ Has(h, "key:" \o k) /\ MalformedSignature(h)) =>
            /\ pc[h] = "done"
            /\ resp[h].status = 401
            /\ ~Has(h, "sigOK")


\* In this step handler h receives a transaction whose X-API-Key header is
\* missing or is not the router's key.
ReceivesBadApiKey(h) ==
    /\ received' = received + 1
    /\ pc'[h] # "idle"
    /\ req'[h].surface = "transact"
    /\ req'[h].apiKey = "" \/ req'[h].apiKey # AGENT_API_KEY

\* The request is answered 401 at once: nothing is looked up or written.
AnsweredUnauthorized(h) ==
    /\ pc'[h] = "done"
    /\ resp'[h] = Resp(401, "Unauthorized")
    /\ events'[h] = <<>>
    /\ PUBLIC_KEY_CACHE' = PUBLIC_KEY_CACHE
    /\ AGENT_RECORD_CACHE' = AGENT_RECORD_CACHE

\* C22 as stated: a transaction without an X-API-Key header, or with a key
\* that is not the router's, is answered 401 before any other processing.
C22_BadApiKeyIs401 ==
    [][\A h \in Handlers : ReceivesBadApiKey(h) => AnsweredUnauthorized(h)]_vars

\* C22: when the router has a key configured, a transaction without an
\* X-API-Key header, or with a key that is not the router's, is answered 401
\* before any other processing: no Directory lookup, no cache write and no
\* provider call.
C22_BadApiKeyIs401WhenConfigured ==
    [][\A h \in Handlers :
        (AGENT_API_KEY # "" /\ ReceivesBadApiKey(h)) => AnsweredUnauthorized(h)]_vars

\* With A's record already cached by an earlier transaction, a transaction
\* with a wrong key was answered 401 and logged no step.
C22_Witness ==
    \E h \in Handlers :
        /\ AGENT_API_KEY = "k1"
        /\ IsTransact(h)
        /\ req[h].apiKey = "wrong"
        /\ pc[h] = "done"
        /\ resp[h] = Resp(401, "Unauthorized")
        /\ events[h] = <<>>
        /\ AGENT_RECORD_CACHE["A"].ts >= 0


\* The Directory's answer to the consumer lookup gave the router no key:
\* it knows no such agent, or the agent's record holds no usable public key.
ConsumerUnresolved(h) ==
    \/ Has(h, "consumer:404")
    \/ Has(h, "consumer:active") /\ \A k \in Keys : ~Has(h, "key:" \o k)

\* C23: a transaction whose consumer is unknown to the Directory, or whose
\* consumer's record has no usable public key, is answered 401, and no
\* service lookup is made for it.
C23_UnresolvedConsumerIs401 ==
    \A h \in Handlers :
        (IsTransact(h) /\ ConsumerUnresolved(h)) =>
            /\ pc[h] = "done"
            /\ resp[h].status = 401
            /\ ~Has(h, "lookup:service")

\* C24: a transaction whose provider is unknown to the Directory is answered
\* 404, one whose provider's record has a status other than active is
\* answered 403, and neither is posted to a provider.
C24_UnknownProvider404InactiveProvider403 ==
    \A h \in Handlers :
        /\ (IsTransact(h) /\ Has(h, "provider:404")) =>
              (pc[h] = "done" /\ resp[h].status = 404 /\ ~Has(h, "proxy"))
        /\ \A st \in Statuses \ {"active"} :
              (IsTransact(h) /\ Has(h, "provider:" \o st)) =>
                  (pc[h] = "done" /\ resp[h].status = 403 /\ ~Has(h, "proxy"))


\* The statuses of the router's own answers.
RouterStatuses == {400, 401, 403, 404, 500, 503}

\* Handler h's response is the JSON answer of the provider it called.
Relayed(h) ==
    \E a \in ProviderAnswers :
        a.kind = "json" /\ ProviderSaid(h, a) /\ resp[h] = Resp(a.status, a.body)

\* C25: every transaction ends with a response the handler returned: one of
\* the router's own statuses or the provider's relayed answer, and never
\* the answer Flask gives when an exception leaves the handler.
C25_EveryOutcomeMapped ==
    \A h \in Handlers :
        (IsTransact(h) /\ pc[h] = "done") =>
            /\ resp[h].status \in RouterStatuses \/ Relayed(h)
            /\ resp[h] # UnhandledException


\* The contract's path template has a placeholder the payload has no field
\* for.
PlaceholderUnbound(h) ==
    \E p \in ContractPlaceholders(Field(req[h].body, "service_id")) :
        ~HasKey(Payload(req[h].body), p)

\* C26: a transaction that reached the construction of the outbound call
\* and whose contract's path template has a placeholder missing from the
\* payload is answered 400 and is not posted to the provider.
C26_MissingPlaceholderIs400 ==
    \A h \in Handlers :
        (IsTransact(h) /\ Has(h, "providerResolved") /\ PlaceholderUnbound(h)) =>
            /\ ~Has(h, "proxy")
            /\ pc[h] = "done"
            /\ resp[h].status = 400


\* In this step handler h receives a request, and no other handler moves.
ReceivedBy(h) ==
    /\ pc[h] \in {"idle", "done"}
    /\ received' = received + 1
    /\ \A g \in Handlers \ {h} :
          pc'[g] = pc[g] /\ req'[g] = req[g] /\ resp'[g] = resp[g] /\ events'[g] = events[g]

\* The request handler h receives in this step is one a handler has
\* answered before: same transaction_id, same body, same signature.
ReceivesDuplicate(h) ==
    /\ ReceivedBy(h)
    /\ req'[h].surface = "transact"
    /\ \E g \in Handlers : pc[g] = "done" /\ req[g] = req'[h]

\* In this step handler h starts from what the entry of a2a_transact makes
\* of its request, the clock and the caches alone.
ProcessedAfresh(h) ==
    LET m == transact_entry(AGENT_API_KEY, req'[h], now, PUBLIC_KEY_CACHE, AGENT_RECORD_CACHE)
    IN  pc'[h] = m.pc /\ resp'[h] = m.resp /\ events'[h] = m.ev

\* C27: a transaction submitted again is processed like one never seen: the
\* handler that receives it starts from what the entry of a2a_transact makes
\* of the request, the clock and the caches alone (a step that leaves every
\* handler as it was does not tell which handler received the request: it
\* is enough that one of them did so); and every transaction whose provider
\* was resolved with an endpoint is posted to it.
C27_DuplicateProcessedAgain ==
    /\ [][(\E h \in Handlers : ReceivesDuplicate(h)) =>
            (\E h \in Handlers : ReceivesDuplicate(h) /\ ProcessedAfresh(h))]_vars
    /\ [](\A h \in Handlers :
            (/\ IsTransact(h)
             /\ Has(h, "providerResolved")
             /\ directory[ProviderOf(req[h])].api_endpoint # "") => Has(h, "proxy"))

\* The same signed transaction was submitted twice; each submission was
\* posted to the provider and answered with the provider's 200.
C27_Witness ==
    \E g, h \in Handlers :
        /\ g # h
        /\ IsTransact(g)
        /\ req[g] = req[h]
        /\ Has(g, "proxy") /\ Has(g, "relayed:json200") /\ resp[g].status = 200
        /\ Has(h, "proxy") /\ Has(h, "relayed:json200") /\ resp[h].status = 200


\* The headers hold a non-empty X-Agent-Signature and a non-empty
\* X-Amorce-Agent-ID, in whatever spelling.
BothHeadersPresent(headers) ==
    /\ \E i \in DOMAIN headers :
          headers[i].name \in SignatureNames /\ headers[i].value # ""
    /\ \E i \in DOMAIN headers :
          headers[i].name \in AgentIdNames /\ headers[i].value # ""

StandaloneAccepted == verification.outcome.raised = ""

\* C29 as stated: in standalone mode a request is accepted if and only if
\* both headers are present and non-empty, and a security error is raised
\* otherwise; outside standalone mode it is passed to verify_request.
C29_AcceptedIffBothHeaders ==
    verification.stage = "returned" =>
        IF verification.mode = "standalone"
        THEN /\ verification.outcome.by = "standalone"
             /\ StandaloneAccepted <=> BothHeadersPresent(verification.headers)
             /\ ~StandaloneAccepted => verification.outcome.raised = "AmorceSecurityError"
        ELSE verification.outcome.by = "verify_request"

\* C29: in standalone mode a request is accepted if and only if both
\* headers are present and non-empty (names matched case-insensitively,
\* whatever the signature value) and its body parses as JSON; a missing or
\* empty header raises a security error, a body that does not parse raises
\* the JSON decoder's error; outside standalone mode the request is passed
\* to verify_request.
C29_AcceptedIffBothHeadersAndJsonBody ==
    verification.stage = "returned" =>
        IF verification.mode = "standalone"
        THEN /\ verification.outcome.by = "standalone"
             /\ StandaloneAccepted <=>
                   (BothHeadersPresent(verification.headers) /\ verification.data.parses)
             /\ StandaloneAccepted =>
                   /\ verification.outcome.payload = verification.data.obj
                   /\ \E i \in DOMAIN verification.headers :
                         /\ verification.headers[i].name \in AgentIdNames
                         /\ verification.headers[i].value = verification.outcome.agent_id
             /\ ~BothHeadersPresent(verification.headers) =>
                   verification.outcome.raised = "AmorceSecurityError"
             /\ (BothHeadersPresent(verification.headers) /\ ~verification.data.parses) =>
                   verification.outcome.raised = "JSONDecodeError"
        ELSE verification.outcome.by = "verify_request"

\* A request with lower-case header names and the load test's signature
\* value, which is no signature of anything, was accepted.
C29_Witness ==
    /\ verification.stage = "returned"
    /\ verification.mode = "standalone"
    /\ \E i \in DOMAIN verification.headers :
          verification.headers[i] = Header("x-agent-signature", "test-signature")
    /\ \E i \in DOMAIN verification.headers :
          verification.headers[i].name = "x-amorce-agent-id"
    /\ StandaloneAccepted
    /\ verification.outcome.agent_id = "A"


\* The request a handler serves on the tool surface does not pass signature
\* verification: in standalone mode a header is missing or empty, in
\* production mode the Directory has no key for the sender or the signature
\* does not verify under it.
FailsVerification(h) ==
    /\ IsToolCall(h)
    /\ IF req[h].surface = "standalone"
       THEN req[h].sig = NoHeader \/ req[h].agentHdr = ""
       ELSE regKey[h] = "" \/ ~SignatureVerifies(h, regKey[h])

C30_CachedKeyIsKeyOfCurrentRecord ==
    \A a \in AgentIds :
        (KeyYoungerThanTTL(a) /\ YoungerThanTTL(a)) =>
            PUBLIC_KEY_CACHE[a].val =
                load_pem_public_key(AGENT_RECORD_CACHE[a].val.public_key)


(***************************************************************************)
(* Concurrent lookups                                                      *)
(***************************************************************************)

\* C31: every change of the record cache is the write of one handler whose
\* Directory fetch returns in that step: the entry of the agent it looked up
\* becomes exactly the record the Directory answered it with, stamped with
\* the present time, and the entry of every other agent stays as it was.
C31_LastWriteWinsWholesale ==
    [][AGENT_RECORD_CACHE' # AGENT_RECORD_CACHE =>
        \E h \in Handlers : \E a \in AgentIds :
            /\ FetchReturns(h, a)
            /\ snap[h].code = 200
            /\ AGENT_RECORD_CACHE' =
                  [AGENT_RECORD_CACHE EXCEPT ![a] = Entry(snap[h].data, now)]]_vars

\* Two handlers missed the cache for A side by side and each fetched A's
\* record, one before and one after A's key was rotated: the key cache holds
\* the first handler's key, the record cache the last writer's record whole.
C31_Witness ==
    \E g, h \in Handlers :
        /\ g # h
        /\ Sender(req[g]) = "A" /\ Has(g, "fetch:consumer") /\ Has(g, "consumer:active")
        /\ ProviderOf(req[h]) = "A" /\ Has(h, "fetch:provider") /\ Has(h, "provider:active")
        /\ PUBLIC_KEY_CACHE["A"].val = "K1"
        /\ AGENT_RECORD_CACHE["A"] = Entry(directory["A"], now)
        /\ directory["A"].public_key = "K2"
        /\ AGENT_RECORD_CACHE["B"].ts >= 0


(***************************************************************************)
(* Staleness                                                               *)
(***************************************************************************)

\* C32: A's status changed from active to suspended or revoked at time 0;
\* a transaction signed by A that is received one TTL later, or after that,
\* is not taken as verified on arrival, and no transaction of A that the
\* router is serving then has passed the signature check or been posted to
\* the provider.
C32_StalenessBoundedByOneTTL ==
    [][\A h \in Handlers :
        (/\ ReceivedBy(h)
         /\ Sender(req'[h]) = "A"
         /\ directory["A"].status # "active"
         /\ now >= CACHE_TTL_SECONDS) =>
            /\ "sigOK" \notin Range(events'[h])
            /\ "proxy" \notin Range(events'[h])
            /\ pc'[h] \in {"done", "consumerFetch"}]_vars


\* The cache entry is there and as old as the TTL, or older.
Stale(entry) == entry.ts >= 0 /\ now - entry.ts >= CACHE_TTL_SECONDS

\* C33: a cached record or key as old as the TTL is never served.  A
\* transaction whose consumer's key and record are both stale starts a
\* Directory fetch; and when the fetch for an agent with a stale entry is
\* not answered, or is answered with an error or 404, the lookup fails: the
\* transaction ends (403 for the consumer, 404 for the provider) without a
\* key, a verified signature or a resolved provider.
C33_StaleEntryNeverServed ==
    [][\A h \in Handlers : \A a \in AgentIds :
        /\ (Stale(PUBLIC_KEY_CACHE[a]) /\ Stale(AGENT_RECORD_CACHE[a])
               /\ ConsumerLookupBy(h, a)) =>
              /\ pc'[h] = "consumerFetch"
              /\ events'[h] = <<"fetch:consumer">>
        /\ (Stale(AGENT_RECORD_CACHE[a]) /\ FetchReturns(h, a) /\ snap[h].code # 200) =>
              /\ pc'[h] = "done"
              /\ resp'[h].status = IF pc[h] = "consumerFetch" THEN 403 ELSE 404
              /\ \A k \in Keys : ("key:" \o k) \in Range(events'[h]) => pc[h] = "providerFetch"
              /\ pc[h] = "consumerFetch" => "sigOK" \notin Range(events'[h])
              /\ "providerResolved" \notin Range(events'[h])
              /\ "proxy" \notin Range(events'[h])]_vars

\* A's key and record were cached by one transaction; the TTL later the
\* Directory did not answer the next transaction's lookup of A, and that
\* transaction was refused although the expired entries are still there.
C33_Witness ==
    \E h \in Handlers :
        /\ Sender(req[h]) = "A"
        /\ Has(h, "consumer:timeout")
        /\ pc[h] = "done" /\ resp[h].status = 403
        /\ Stale(PUBLIC_KEY_CACHE["A"]) /\ PUBLIC_KEY_CACHE["A"].val = "K1"
        /\ Stale(AGENT_RECORD_CACHE["A"])


\* C34: every record in the record cache has status active, and every key
\* in the key cache was parsed, when it was stored, from the active record
\* the record cache held for the same agent at that moment; a lookup that
\* the Directory answers with a record that is not active changes neither
\* cache.
C34_OnlyActiveRecordsCached ==
    /\ [](\A a \in AgentIds :
            /\ AGENT_RECORD_CACHE[a].ts >= 0 => AGENT_RECORD_CACHE[a].val.status = "active"
            /\ PUBLIC_KEY_CACHE[a].ts >= 0 =>
                  /\ PUBLIC_KEY_CACHE[a].val # ""
                  /\ AGENT_RECORD_CACHE[a].ts >= 0
                  /\ AGENT_RECORD_CACHE[a].ts <= PUBLIC_KEY_CACHE[a].ts)
    /\ [][\A h \in Handlers : \A a \in AgentIds :
            /\ PUBLIC_KEY_CACHE'[a] # PUBLIC_KEY_CACHE[a] =>
                  /\ AGENT_RECORD_CACHE'[a].val.status = "active"
                  /\ PUBLIC_KEY_CACHE'[a] =
                        Entry(load_pem_public_key(AGENT_RECORD_CACHE'[a].val.public_key), now)
            /\ (FetchReturns(h, a) /\ snap[h].code = 200 /\ snap[h].data.status # "active") =>
                  /\ AGENT_RECORD_CACHE' = AGENT_RECORD_CACHE
                  /\ PUBLIC_KEY_CACHE' = PUBLIC_KEY_CACHE]_vars

\* A's record and key are cached, and the lookup of provider B, which the
\* Directory answered with a suspended record, has left no entry for B.
C34_Witness ==
    \E h \in Handlers :
        /\ Has(h, "provider:suspended")
        /\ ProviderOf(req[h]) = "B"
        /\ AGENT_RECORD_CACHE["B"] = NoRecEntry
        /\ PUBLIC_KEY_CACHE["B"] = NoKeyEntry
        /\ AGENT_RECORD_CACHE["A"].ts >= 0
        /\ PUBLIC_KEY_CACHE["A"].ts >= 0


\* C35: once the record cache holds, for an agent, the record the Directory
\* holds now, no write replaces it with another record of that agent (one
\* the Directory returned before it changed) under a later stamp.
C35_CacheNeverRegresses ==
    [][\A a \in AgentIds :
        (/\ AGENT_RECORD_CACHE[a].ts >= 0
         /\ AGENT_RECORD_CACHE[a].val = directory[a]
         /\ AGENT_RECORD_CACHE'[a] # AGENT_RECORD_CACHE[a]) =>
            ~(/\ AGENT_RECORD_CACHE'[a].val # directory[a]
              /\ AGENT_RECORD_CACHE'[a].ts > AGENT_RECORD_CACHE[a].ts)]_vars


(***************************************************************************)
(* The router's local checks and its outbound call                         *)
(***************************************************************************)

\* Handler h serves a transaction that passed the API key check, has a
\* signature header and a consumer, and names no service.
WithoutServiceId(h) ==
    /\ IsTransact(h)
    /\ req[h].apiKey = AGENT_API_KEY
    /\ req[h].sig # NoHeader
    /\ Sender(req[h]) # ""
    /\ Field(req[h].body, "service_id") = ""

ProviderWithoutEndpoint(h) ==
    /\ IsTransact(h)
    /\ Has(h, "providerResolved")
    /\ AGENT_RECORD_CACHE[ProviderOf(req[h])].val.api_endpoint \in {"", NullMetadata}

\* C37: a transaction whose service contract names no provider, or whose
\* provider's record has no api_endpoint, is answered 500 and is not posted
\* to any provider; without a provider no provider lookup is made either.
C37_MisconfigurationIs500 ==
    \A h \in Handlers :
        /\ (IsTransact(h) /\ Has(h, "serviceResolved") /\ ProviderOf(req[h]) = "") =>
              /\ pc[h] = "done"
              /\ resp[h].status = 500
              /\ ~Has(h, "fetch:provider")
              /\ ~Has(h, "providerResolved")
              /\ ~Has(h, "proxy")
        /\ ProviderWithoutEndpoint(h) =>
              /\ pc[h] = "done"
              /\ resp[h].status = 500
              /\ ~Has(h, "proxy")

\* The provider of the transaction's service was looked up and its record,
\* active, has no api_endpoint: the transaction was answered 500.
C37_Witness ==
    \E h \in Handlers :
        /\ ProviderWithoutEndpoint(h)
        /\ ProviderOf(req[h]) = "C"
        /\ Has(h, "provider:active")
        /\ resp[h] = Resp(500, "provider misconfigured")


\* The values of the X-API-Key headers of handler h's provider call.
ForwardedKeys(h) ==
    {outbound[h].headers[i].value :
        i \in {j \in DOMAIN outbound[h].headers : outbound[h].headers[j].name = "X-API-Key"}}

\* Handler h's provider call went to the endpoint of the provider's record
\* and its body is the received body, field by field in the order received.
PostedAsReceived(h) ==
    /\ outbound[h].url = AGENT_RECORD_CACHE[ProviderOf(req[h])].val.api_endpoint
    /\ outbound[h].data = json_dumps(req[h].body, FALSE, ", ", ": ")

\* C38 as stated: the provider call carries the received body unchanged and
\* an X-API-Key header equal to the router's own key.
C38_BodyAndKeyForwarded ==
    \A h \in Handlers :
        (IsTransact(h) /\ Has(h, "proxy")) =>
            /\ PostedAsReceived(h)
            /\ \E k \in ForwardedKeys(h) : k = AGENT_API_KEY

\* C38: the provider call carries the received body unchanged; when the
\* router was started with AGENT_API_KEY set, it carries one X-API-Key
\* header, equal to that key; when the router has no key, it carries no
\* X-API-Key header at all, whatever key the client sent.
C38_BodyForwardedKeyWhenConfigured ==
    \A h \in Handlers :
        (IsTransact(h) /\ Has(h, "proxy")) =>
            /\ PostedAsReceived(h)
            /\ ForwardedKeys(h) = IF AGENT_API_KEY = "" THEN {} ELSE {AGENT_API_KEY}
            /\ Len(outbound[h].headers) = IF AGENT_API_KEY = "" THEN 1 ELSE 2

\* A router with a key posted a transaction to provider B's endpoint with
\* its own key in the header.
C38_Witness ==
    \E h \in Handlers :
        /\ IsTransact(h)
        /\ Has(h, "proxy")
        /\ AGENT_API_KEY = "k1"
        /\ outbound[h].url = "E"
        /\ outbound[h].headers[1] = Header("X-API-Key", "k1")
        /\ outbound[h].data # <<>>


(***************************************************************************)
(* The negotiation loop                                                    *)
(***************************************************************************)

\* C39: whatever the provider answers, the negotiation loop sends at most
\* 10 turns before it stops.
C39_LoopSendsAtMostTenTurns == conversation.sent <= SAFETY_LIMIT

====
